---- MODULE Spec2Model ----
(***************************************************************************)
(* Concurrent partition / telemetry manager (nvml_mig::MIGManager).        *)
(*                                                                         *)
(* Threads: caller threads, the command worker (workerLoop) and the        *)
(* refresh-loop threads created by startMonitoring (monitoringLoop).       *)
(* A thread's pc names the statement it is at; a thread whose pc is one of *)
(* the driver-call locations is inside that Driver Interface call.         *)
(***************************************************************************)
EXTENDS Integers, Sequences, FiniteSets, TLC

\* ------------------------------------------------------------------ bounds
NumDevices == 2
NumCallers == 2
MaxSpawn == 2
MaxOps == 2
MaxCalls == 3
\* initialize() and shutdown() calls made on one NVMLManager
MaxNvmlCalls == 4
MaxInstances == 2
MaxCI == 2

Devices  == 0..(NumDevices - 1)
Callers  == 1..NumCallers
Worker   == NumCallers + 1
Monitors == (NumCallers + 2)..(NumCallers + 1 + MaxSpawn)
Threads  == Callers \cup {Worker} \cup Monitors

\* ------------------------------------------------------------------ driver
\* The uuid the driver reports for the first partition that lives on driver
\* device d, and for its i-th partition (GPU instance i).
UuidOf(d) == d + 1
UUIDs == {UuidOf(d) : d \in Devices}
InstUuid(d, i) == UuidOf(d) + (i - 1) * NumDevices
AllUuids == {InstUuid(d, i) : d \in Devices, i \in 1..MaxInstances}
DevOfUuid(u) == (u - 1) % NumDevices

\* The driver's answers to the queries refreshMIGDevices makes for one GPU
\* instance: nvmlGpuInstanceGetInfo, nvmlGpuInstanceGetComputeInstances (and
\* the count it reports), nvmlComputeInstanceGetInfo for the first compute
\* instance, nvmlDeviceGetUUID, nvmlDeviceGetGpuInstanceProfileInfo (and the
\* maxComputeInstances it reports).
InstanceOk(c) ==
    [infoOk |-> TRUE, ciOk |-> TRUE, ciCount |-> c, ci0Ok |-> TRUE, uuidOk |-> TRUE,
     profOk |-> TRUE, profMax |-> MaxCI]

InstanceAnswers ==
    { InstanceOk(1), InstanceOk(MaxCI),
      [InstanceOk(1) EXCEPT !.profOk = FALSE],
      [InstanceOk(1) EXCEPT !.uuidOk = FALSE],
      [InstanceOk(1) EXCEPT !.ci0Ok = FALSE],
      [InstanceOk(1) EXCEPT !.ciCount = 0],
      [InstanceOk(1) EXCEPT !.ciOk = FALSE],
      [InstanceOk(1) EXCEPT !.infoOk = FALSE] }

\* The driver's answers for one device: nvmlDeviceGetMigMode succeeds or not,
\* nvmlDeviceGetGpuInstances succeeds or not, and the instances it lists.
DeviceAnswer(modeOk, giOk, inst) == [modeOk |-> modeOk, giOk |-> giOk, inst |-> inst]
DeviceOk == DeviceAnswer(TRUE, TRUE, <<InstanceOk(1)>>)
DeviceAnswers ==
    {DeviceAnswer(FALSE, FALSE, <<>>), DeviceAnswer(TRUE, FALSE, <<>>)}
    \cup {DeviceAnswer(TRUE, TRUE, s) :
             s \in UNION {[1..n -> InstanceAnswers] : n \in 0..MaxInstances}}

\* A driver on which every partitioned device has one healthy partition, and
\* whose instance enumeration may fail.
SimpleDriver == [d \in Devices |-> {DeviceOk, DeviceAnswer(TRUE, FALSE, <<>>)}]

\* Whether every query of the answer succeeded, as far as refresh makes them.
InstanceClean(a) ==
    a.infoOk /\ a.ciOk /\ (a.ciCount > 0 => a.ci0Ok /\ a.uuidOk /\ a.profOk)
AnswerClean(enabled, q) ==
    q.modeOk /\ (enabled => q.giOk /\ \A i \in DOMAIN q.inst : InstanceClean(q.inst[i]))

\* The empty std::string.
NoUuid == 0

\* A partition descriptor as refreshMIGDevices fills it in for GPU instance i
\* of driver device d at inventory position p, from the instance's answers a.
\* uuid stays empty unless the first compute instance's info and the uuid
\* query succeed; maxComputeInstances is assigned only when the profile query
\* succeeds, and g is the indeterminate value the field holds otherwise.
MIGDeviceInfo(p, d, i, a, g) ==
    LET first == a.ciCount > 0 /\ a.ci0Ok
    IN [uuid |-> IF first /\ a.uuidOk THEN InstUuid(d, i) ELSE NoUuid,
        parentDeviceIndex |-> p, instanceId |-> i,
        currentComputeInstances |-> a.ciCount,
        maxComputeInstances |-> IF first /\ a.profOk THEN a.profMax ELSE g]

\* The driver's answers to the telemetry queries of one collection:
\* nvmlDeviceGetUtilizationRates, nvmlDeviceGetMemoryInfo,
\* nvmlDeviceGetPowerUsage, nvmlDeviceGetTemperature succeed or not.
SensorAnswers == [utilOk : BOOLEAN, memOk : BOOLEAN, powerOk : BOOLEAN, tempOk : BOOLEAN]
SensorsOk == [utilOk |-> TRUE, memOk |-> TRUE, powerOk |-> TRUE, tempOk |-> TRUE]

\* The values the fields of a default-initialized MIGMetrics can hold when
\* they are not assigned: zero or not.
Unassigned(a) ==
    [util : IF a.utilOk THEN {0} ELSE {0, 1}, mem : IF a.memOk THEN {0} ELSE {0, 1},
     power : IF a.powerOk THEN {0} ELSE {0, 1}, temp : IF a.tempOk THEN {0} ELSE {0, 1}]

\* A field of `MIGMetrics metrics;`: assigned from the reading only inside the
\* successful query, otherwise left as it was.
Field(ok, reading, garbage) == IF ok THEN reading ELSE garbage

\* A telemetry snapshot as collectDeviceMetrics fills it in from answers a
\* (every reading is 1 here; g: what unassigned fields hold): power and
\* temperature come from the parent device.
MIGMetrics(info, a, g) ==
    [uuid |-> info.uuid, sensorsFrom |-> info.parentDeviceIndex,
     gpuUtilization |-> Field(a.utilOk, 1, g.util),
     memoryUsed |-> Field(a.memOk, 1, g.mem),
     powerUsage |-> Field(a.powerOk, 1, g.power),
     temperature |-> Field(a.tempOk, 1, g.temp)]

EmptyMap == [u \in {} |-> 0]

VARIABLES
    migMode,          \* driver: partitioning mode per device
    migDevices,       \* published registry, uuid -> descriptor
    latestMetrics,    \* published metrics cache, uuid -> snapshot
    monitoringActive, \* std::atomic<bool>
    workerActive,     \* std::atomic<bool>
    monitoringThread, \* std::thread handle: {} when not joinable, else {thread}
    metricsMutex,     \* holder of metricsMutex: {} or {thread}
    taskQueue,        \* std::queue<AsyncTask>
    pc,               \* per thread: the statement it is at
    op,               \* per caller: the facade call in progress
    rIdx,             \* per thread: deviceIndex of the refresh loop in progress
    newDevices,       \* per thread: the local map a refresh is building
    readBuf,          \* per caller: the vector a registry read has copied so far
    iter,             \* per caller: position of a registry read's iteration
    mMetrics,         \* per monitor: the local metrics map of the current pass
    thr,              \* per caller: the thread a join() waits for, or the new std::thread
    curTask,          \* worker: the dequeued AsyncTask
    wOk,              \* worker: whether task.task() returned without throwing
    terminated,       \* std::terminate was called: the process is gone
    submitted,        \* history: per accepted async command, whether it has a callback
    execLog,          \* history: command ids in the order their execution began
    cbLog,            \* history: completion callbacks of async commands, in order
    dirty,            \* history: the driver changed after the worker's last driver call
    rClean,           \* history, per thread: no driver query of its refresh in progress has failed
    pubClean,         \* history: the published registry was built without a failed driver query
    notified,         \* monitoringCV: blocked loop threads that a notify_all has reached
    opsLeft,          \* facade calls the callers may still start
    devices,          \* the inventory: driver indices of the acquired handles, in vector order
    init,             \* construction: the driver's answers to its queries and the loop index
    driver,           \* per driver device, the answers its enumeration queries may get
    hist,             \* history: the last facade calls that have returned, when recorded
    sensors,          \* the answers the driver's telemetry queries may get
    callbacks,        \* what a completion callback invoked with success=true may do
    taskMutex,        \* holder of taskMutex, when its critical sections are more than one step
    timer,            \* history: the intervals passed to and waited by the refresh loops
    singleton,        \* instanceMutex, the static instance pointer and what getInstance returned
    nvml,             \* the NVMLManager object and the driver's global init/teardown calls
    age               \* history: which refresh passes and whether the registry predate a mutation

vars == <<migMode, migDevices, latestMetrics, monitoringActive, workerActive,
          monitoringThread, metricsMutex, taskQueue, pc, op, rIdx, newDevices,
          readBuf, iter, mMetrics, thr, curTask, wOk, terminated, submitted,
          execLog, cbLog, dirty, rClean, pubClean, notified, opsLeft, devices, init, driver, hist, sensors, callbacks, taskMutex, timer, singleton, nvml, age>>

\* A facade call in progress: its arguments and, for enable/disable, what the
\* call has done on the caller's thread so far: the outcome of its driver call
\* (drv), the callback invocations (cbs, by success flag) and the value it
\* returns (ret).
NoOp     == [kind |-> "none", dev |-> 0, async |-> FALSE, cb |-> FALSE, uuid |-> 0,
             drv |-> "none", cbs |-> <<>>, ret |-> "none", intervalMs |-> 0]
\* An AsyncTask; drv is the outcome of its nvmlDeviceSetMigMode once it has run.
NoTask   == [id |-> 0, enable |-> FALSE, dev |-> 0, cb |-> FALSE, drv |-> "none"]

\* What a user-supplied completion callback may do when it is invoked with
\* success=true: return, or raise a std::exception.
Returns == "returns"
Raises  == "raises"

\* No recording of returned calls, and the record a returned call leaves when
\* they are recorded: the last two calls are kept.
NoHist == [on |-> FALSE, log |-> <<>>]
Log(h, o) ==
    LET e == [kind |-> o.kind, dev |-> o.dev, ret |-> o.ret]
    IN IF h.on
       THEN [h EXCEPT !.log = IF Len(@) < 2 THEN Append(@, e) ELSE <<@[2], e>>]
       ELSE h

\* void startMonitoring(unsigned int intervalMs = 1000);
DefaultIntervalMs == 1000
\* monitoringCV.wait_for(lock, std::chrono::milliseconds(1000), ...)
WaitMs == 1000
\* The argument values of startMonitoring: shorter than, equal to and longer
\* than the default.
Intervals == {500, DefaultIntervalMs, 2000}

\* No recording of intervals: per loop thread the intervalMs of the
\* startMonitoring call that created it and the duration of its last wait_for
\* (0 before its first wait); a loop that runs from the start was started with
\* the argument omitted.
NoTimer == [on |-> FALSE, requested |-> [m \in Monitors |-> DefaultIntervalMs],
            waited |-> [m \in Monitors |-> 0]]

\* The statics of getInstance once every caller holds the one instance: the
\* holder of instanceMutex, the instance pointer (0: nullptr, else the number
\* of the object), the number of MIGManager objects whose construction has
\* completed, and per caller the object getInstance returned to it (0: none).
Handed == [instanceMutex |-> {}, instance |-> 1, made |-> 1,
           got |-> [t \in Callers |-> 1]]
\* The statics before the first call: instance = nullptr.
NotHanded == [instanceMutex |-> {}, instance |-> 0, made |-> 0,
              got |-> [t \in Callers |-> 0]]

\* NVMLManager(): initialized(false), eventSet(nullptr); no call made yet. at
\* is the statement the object's caller is at, call/ret the last call and the
\* value it returned; inits and shutdowns count the successful nvmlInit and
\* the nvmlShutdown calls, driverCalls every driver call; reinit records that
\* initialize() was called on an initialized manager. running(false); the two
\* std::thread members hold no thread (0) or the position in threads of the
\* thread they can join; threads lists the threads created so far, each with
\* the loop it runs and whether it runs, has returned or has been joined.
NewManager ==
    [at |-> "idle", initialized |-> FALSE, eventSet |-> FALSE, call |-> "none",
     ret |-> "none", inits |-> 0, shutdowns |-> 0, driverCalls |-> 0, calls |-> 0,
     reinit |-> FALSE, running |-> FALSE, monitorThread |-> 0, eventThread |-> 0,
     threads |-> <<>>]

\* No recording of ages: per thread, whether the driver's mode state changed
\* after the first read of its refresh pass in progress, and whether the
\* published registry was built by a pass that began after the last change.
NoAge == [on |-> FALSE, stale |-> [t \in Threads |-> FALSE], current |-> TRUE]

\* taskMutex when each of its critical sections (push, wait and pop, the
\* store to workerActive) is taken as one step: nobody holds it between steps.
NoTaskLock == [on |-> FALSE, holder |-> {}]

\* A lock_guard / unique_lock on taskMutex that is never released.
NeverReleased(mx, t) == mx

\* The end of a lock_guard / unique_lock scope of thread t on taskMutex.
Released(mx, t) == [mx EXCEPT !.holder = @ \ {t}]

\* Thread t takes taskMutex.
Locked(mx, t) == [mx EXCEPT !.holder = {t}]

TypeOK ==
    /\ migMode \in [Devices -> BOOLEAN]
    /\ DOMAIN migDevices \subseteq AllUuids
    /\ DOMAIN latestMetrics \subseteq AllUuids
    /\ monitoringActive \in BOOLEAN /\ workerActive \in BOOLEAN
    /\ monitoringThread \subseteq Monitors /\ Cardinality(monitoringThread) <= 1
    /\ metricsMutex \subseteq Threads /\ Cardinality(metricsMutex) <= 1
    /\ Len(taskQueue) <= MaxCalls
    /\ opsLeft \in 0..(MaxCalls + NumCallers)

\* The partition layout the driver reports in mode state m when every query
\* succeeds on the simple driver: an inventoried device exposes its partition
\* exactly when partitioning is enabled on it.
DriverLayout(m) ==
    LET on == {k \in 1..Len(devices) : m[devices[k]]}
        pos(u) == CHOOSE k \in on : devices[k] = DevOfUuid(u)
    IN [u \in {UuidOf(devices[k]) : k \in on} |->
          MIGDeviceInfo(pos(u) - 1, DevOfUuid(u), 1, InstanceOk(1), 0)]

\* First refresh-loop thread id.
Monitor1 == NumCallers + 2

\* The answers the driver gave a construction that acquired every handle.
Constructed ==
    [nvmlOk |-> TRUE, count |-> NumDevices, handleOk |-> [d \in Devices |-> TRUE],
     i |-> NumDevices]

\* What is the same in every starting state: nothing cached, nothing queued,
\* no call in progress, `calls` facade calls still to come; when `monitoring`,
\* startMonitoring() has already returned.
InitCalls(calls, monitoring) ==
    /\ latestMetrics = EmptyMap
    /\ monitoringActive = monitoring
    /\ monitoringThread = (IF monitoring THEN {Monitor1} ELSE {})
    /\ metricsMutex = {}
    /\ taskQueue = <<>>
    /\ op = [t \in Callers |-> NoOp]
    /\ rIdx = [t \in Threads |-> 0]
    /\ newDevices = [t \in Threads |-> EmptyMap]
    /\ readBuf = [t \in Callers |-> EmptyMap]
    /\ iter = [t \in Callers |-> 0]
    /\ mMetrics = [t \in Monitors |-> EmptyMap]
    /\ thr = [t \in Callers |-> {}]
    /\ curTask = NoTask
    /\ wOk = FALSE
    /\ terminated = FALSE
    /\ submitted = <<>>
    /\ execLog = <<>>
    /\ cbLog = <<>>
    /\ dirty = FALSE
    /\ rClean = [t \in Threads |-> TRUE]
    /\ pubClean = TRUE
    /\ notified = {}
    /\ opsLeft = calls
    /\ nvml = NewManager

\* The same on a driver whose telemetry queries succeed.
InitBase(calls, monitoring) ==
    /\ InitCalls(calls, monitoring)
    /\ sensors = {SensorsOk} /\ timer = NoTimer /\ age = NoAge
    /\ callbacks = {Returns}
    /\ taskMutex = NoTaskLock

\* The threads of a constructed manager: callers idle, the worker at the head
\* of workerLoop.
StartedPc(monitoring) ==
    [t \in Threads |-> IF t \in Callers THEN "idle"
                       ELSE IF t = Worker THEN "w_test"
                       ELSE IF monitoring /\ t = Monitor1 THEN "m_test"
                       ELSE "none"]

\* The manager after a construction that acquired every handle
\* (initializeDevices has run its first refresh, the worker thread has been
\* started).
InitCore(calls, monitoring) ==
    /\ InitBase(calls, monitoring)
    /\ singleton = Handed
    /\ devices = [i \in 1..NumDevices |-> i - 1]
    /\ init = Constructed
    /\ driver = SimpleDriver
    /\ migMode \in [Devices -> BOOLEAN]
    /\ migDevices = DriverLayout(migMode)
    /\ workerActive = TRUE
    /\ pc = StartedPc(monitoring)

InitWith(calls, monitoring) == InitCore(calls, monitoring) /\ hist = NoHist

Init == InitWith(MaxOps, FALSE)

\* --------------------------------------------------------------- refresh
RefreshPCs == {"s_refresh", "w_refresh", "m_refresh", "g_refresh", "ctor_refresh"}

\* nvmlDeviceSetMigMode has turned mode state m into m2.
Mutated(a, m, m2) ==
    IF a.on /\ m2 # m
    THEN [stale |-> [t \in Threads |->
                        a.stale[t] \/ (pc[t] \in RefreshPCs /\ rIdx[t] > 0)],
          current |-> FALSE, on |-> TRUE]
    ELSE a

\* Thread t has swapped its map in.
Swapped(a, t) ==
    IF a.on THEN [a EXCEPT !.current = ~a.stale[t], !.stale[t] = FALSE] ELSE a

\* Where a thread continues when refreshMIGDevices returns.
AfterRefresh(p) ==
    CASE p = "s_refresh" -> "s_ret"
      [] p = "w_refresh" -> "w_cb"
      [] p = "m_refresh" -> "m_lock"
      [] p = "g_refresh" -> "g_lock"
      [] p = "ctor_refresh" -> "ctor_start"

\* A mode test that takes every device for a partitioned one.
AlwaysEnabled(m, d, ok) == TRUE

\* isMIGModeEnabled: a failed mode query reads as "not enabled".
isMIGModeEnabled(m, d, ok) == ok /\ m[d]

\* A test that takes every uuid for a non-empty one.
UuidNeverEmpty(u) == FALSE

\* migInfo.uuid.empty()
UuidEmpty(u) == u = NoUuid

\* The body of the instance loop for GPU instance i: the descriptor is put in
\* the local map, under its uuid, only inside the two successful queries and
\* when its uuid is not empty.
EnumerateInstance(p, d, i, a, g) ==
    LET migInfo == MIGDeviceInfo(p, d, i, a, g[i])
    IN IF a.infoOk
       THEN IF a.ciOk
            THEN IF ~UuidEmpty(migInfo.uuid)
                 THEN migInfo.uuid :> migInfo
                 ELSE EmptyMap
            ELSE EmptyMap
       ELSE EmptyMap

RECURSIVE EnumerateInstances(_, _, _, _, _)
EnumerateInstances(p, d, n, q, g) ==
    IF n = 0 THEN EmptyMap
    ELSE EnumerateInstance(p, d, n, q.inst[n], g) @@ EnumerateInstances(p, d, n - 1, q, g)

\* What one pass of the deviceIndex loop adds to the local map for inventory
\* position p holding driver device d: nothing when partitioning reads as
\* disabled or the instance enumeration fails.
EnumerateDevice(m, p, d, q, g) ==
    IF ~isMIGModeEnabled(m, d, q.modeOk) THEN EmptyMap
    ELSE IF ~q.giOk THEN EmptyMap
    ELSE EnumerateInstances(p, d, Len(q.inst), q, g)

\* The values the unassigned maxComputeInstances fields can hold.
Indeterminate(q) ==
    IF \E i \in DOMAIN q.inst : ~q.inst[i].profOk
    THEN [1..MaxInstances -> 0..MaxCI]
    ELSE {[i \in 1..MaxInstances |-> 0]}

\* One iteration of the deviceIndex loop of refreshMIGDevices: driver queries
\* for one device, made with no lock held.
RefreshDevice(t) ==
    /\ ~terminated
    /\ pc[t] \in RefreshPCs
    /\ rIdx[t] < Len(devices)
    /\ LET p == rIdx[t]
           d == devices[p + 1]
       IN \E q \in driver[d] : \E g \in Indeterminate(q) :
          /\ newDevices' = [newDevices EXCEPT ![t] = EnumerateDevice(migMode, p, d, q, g) @@ @]
          /\ rClean' = [rClean EXCEPT ![t] = @ /\ AnswerClean(migMode[d], q)]
    /\ rIdx' = [rIdx EXCEPT ![t] = @ + 1]
    /\ UNCHANGED <<migMode, migDevices, latestMetrics, monitoringActive, workerActive,
                   monitoringThread, metricsMutex, taskQueue, pc, op, readBuf, iter,
                   mMetrics, thr, curTask, wOk, terminated, submitted, execLog,
                   cbLog, dirty, pubClean, notified, opsLeft, devices, init, driver, hist, sensors, callbacks, taskMutex, timer, singleton, nvml, age>>

\* A swap that does not take metricsMutex.
SwapUnguarded(t) == TRUE

\* std::lock_guard on metricsMutex: the lock can be taken when nobody holds it.
SwapLockFree(t) == metricsMutex = {}

\* The swap that ends refreshMIGDevices: lock, migDevices = move(newDevices), unlock.
RefreshSwap(t) ==
    /\ ~terminated
    /\ pc[t] \in RefreshPCs
    /\ rIdx[t] = Len(devices)
    /\ SwapLockFree(t)
    /\ migDevices' = newDevices[t]
    /\ pubClean' = rClean[t]
    /\ rClean' = [rClean EXCEPT ![t] = TRUE]
    /\ newDevices' = [newDevices EXCEPT ![t] = EmptyMap]
    /\ rIdx' = [rIdx EXCEPT ![t] = 0]
    /\ pc' = [pc EXCEPT ![t] = AfterRefresh(pc[t])]
    /\ age' = Swapped(age, t)
    /\ UNCHANGED <<migMode, latestMetrics, monitoringActive, workerActive,
                   monitoringThread, metricsMutex, taskQueue, op, readBuf, iter,
                   mMetrics, thr, curTask, wOk, terminated, submitted, execLog,
                   cbLog, dirty, notified, opsLeft, devices, init, driver, hist, sensors, callbacks, taskMutex, timer, singleton, nvml>>

\* ---------------------------------------------------------- construction
\* A manager under construction by the first caller of getInstance(): the
\* driver's answers to nvmlInit, nvmlDeviceGetCount (-1: the query fails) and
\* nvmlDeviceGetHandleByIndex are drawn here; no thread of the manager runs.
InitCtor ==
    /\ InitBase(0, FALSE)
    /\ hist = NoHist
    /\ devices = <<>>
    /\ init \in [nvmlOk : BOOLEAN, count : -1..NumDevices,
                  handleOk : [Devices -> BOOLEAN], i : {0}]
    /\ driver = SimpleDriver
    /\ migMode \in [Devices -> BOOLEAN]
    /\ migDevices = EmptyMap
    /\ workerActive = FALSE
    /\ \E c \in Callers :
          /\ pc = [t \in Threads |-> IF t = c THEN "ctor_guard"
                                     ELSE IF t \in Callers THEN "idle" ELSE "none"]
          /\ singleton = [NotHanded EXCEPT !.instanceMutex = {c}]

\* nvmlGuard = std::make_unique<NVMLGuard>(): nvmlInit fails -> NVMLException,
\* which the constructor's handler rethrows.
CtorGuard(t) ==
    /\ pc[t] = "ctor_guard"
    /\ pc' = [pc EXCEPT ![t] = IF init.nvmlOk THEN "ctor_count" ELSE "ctor_failed"]
    /\ UNCHANGED <<migMode, migDevices, latestMetrics, monitoringActive, workerActive, monitoringThread,
                   metricsMutex, taskQueue, op, rIdx, newDevices, readBuf, iter, mMetrics,
                   thr, curTask, wOk, terminated, submitted, execLog, cbLog, dirty,
                   rClean, pubClean, notified, opsLeft, devices, init, driver, hist, sensors, callbacks, taskMutex, timer, singleton, nvml, age>>

\* initializeDevices: nvmlDeviceGetCount; a failure throws, a success clears
\* the inventory and enters the handle loop.
CtorGetCount(t) ==
    /\ pc[t] = "ctor_count"
    /\ IF init.count = -1
       THEN /\ pc' = [pc EXCEPT ![t] = "ctor_failed"]
            /\ UNCHANGED <<devices, init>>
       ELSE /\ devices' = <<>>
            /\ init' = [init EXCEPT !.i = 0]
            /\ pc' = [pc EXCEPT ![t] = "ctor_handles"]
    /\ UNCHANGED <<migMode, migDevices, latestMetrics, monitoringActive, workerActive, monitoringThread,
                   metricsMutex, taskQueue, op, rIdx, newDevices, readBuf, iter, mMetrics,
                   thr, curTask, wOk, terminated, submitted, execLog, cbLog, dirty,
                   rClean, pubClean, notified, opsLeft, driver, hist, sensors, callbacks, taskMutex, timer, singleton, nvml, age>>

\* An inventory that puts each new handle in front.
PushFront(v, x) == <<x>> \o v

\* devices.push_back(device)
PushBack(v, x) == Append(v, x)

\* One iteration of the handle loop: the handle is kept on success, a warning
\* is printed otherwise.
CtorGetHandle(t) ==
    /\ pc[t] = "ctor_handles"
    /\ init.i < init.count
    /\ devices' = IF init.handleOk[init.i] THEN PushBack(devices, init.i) ELSE devices
    /\ init' = [init EXCEPT !.i = @ + 1]
    /\ UNCHANGED pc
    /\ UNCHANGED <<migMode, migDevices, latestMetrics, monitoringActive, workerActive, monitoringThread,
                   metricsMutex, taskQueue, op, rIdx, newDevices, readBuf, iter, mMetrics,
                   thr, curTask, wOk, terminated, submitted, execLog, cbLog, dirty,
                   rClean, pubClean, notified, opsLeft, driver, hist, sensors, callbacks, taskMutex, timer, singleton, nvml, age>>

\* The handle loop ends and initializeDevices calls refreshMIGDevices.
CtorHandlesDone(t) ==
    /\ pc[t] = "ctor_handles"
    /\ init.i >= init.count
    /\ pc' = [pc EXCEPT ![t] = "ctor_refresh"]
    /\ rIdx' = [rIdx EXCEPT ![t] = 0]
    /\ newDevices' = [newDevices EXCEPT ![t] = EmptyMap]
    /\ UNCHANGED <<migMode, migDevices, latestMetrics, monitoringActive, workerActive, monitoringThread,
                   metricsMutex, taskQueue, op, readBuf, iter, mMetrics,
                   thr, curTask, wOk, terminated, submitted, execLog, cbLog, dirty,
                   rClean, pubClean, notified, opsLeft, devices, init, driver, hist, sensors, callbacks, taskMutex, timer, singleton, nvml, age>>

\* workerActive = true; workerThread = std::thread(workerLoop): the
\* constructor returns, getInstance stores the object in `instance`, returns
\* it and releases instanceMutex.
CtorStartWorker(t) ==
    /\ pc[t] = "ctor_start"
    /\ workerActive' = TRUE
    /\ pc' = [pc EXCEPT ![t] = "idle", ![Worker] = "w_test"]
    /\ singleton' = [instanceMutex |-> singleton.instanceMutex \ {t},
                     instance |-> singleton.made + 1,
                     made |-> singleton.made + 1,
                     got |-> [singleton.got EXCEPT ![t] = singleton.made + 1]]
    /\ UNCHANGED <<migMode, migDevices, latestMetrics, monitoringActive, monitoringThread,
                   metricsMutex, taskQueue, op, rIdx, newDevices, readBuf, iter, mMetrics,
                   thr, curTask, wOk, terminated, submitted, execLog, cbLog, dirty,
                   rClean, pubClean, notified, opsLeft, devices, init, driver, hist, sensors, callbacks, taskMutex, timer, nvml, age>>

\* The answers the driver may give one construction.
CtorAnswers ==
    [nvmlOk : BOOLEAN, count : -1..NumDevices, handleOk : [Devices -> BOOLEAN], i : {0}]

\* A getInstance that constructs whatever `instance` holds.
AlwaysConstruct(p) == TRUE

\* !instance
NoInstance(p) == p = 0

\* getInstance(): std::lock_guard on instanceMutex, then the test of
\* `instance`; when it is null the caller runs the constructor with the lock
\* held, against the answers the driver gives this construction.
getInstance(t) ==
    /\ t \in Callers
    /\ pc[t] = "start"
    /\ opsLeft > 0
    /\ singleton.instanceMutex = {}
    /\ opsLeft' = opsLeft - 1
    /\ singleton' = [singleton EXCEPT !.instanceMutex = {t}]
    /\ IF NoInstance(singleton.instance)
       THEN /\ pc' = [pc EXCEPT ![t] = "ctor_guard"]
            /\ init' \in CtorAnswers
       ELSE /\ pc' = [pc EXCEPT ![t] = "gi_return"]
            /\ UNCHANGED init
    /\ UNCHANGED <<migMode, migDevices, latestMetrics, monitoringActive, workerActive,
                   monitoringThread, metricsMutex, taskQueue, op, rIdx, newDevices,
                   readBuf, iter, mMetrics, thr, curTask, wOk, terminated, submitted,
                   execLog, cbLog, dirty, rClean, pubClean, notified, devices,
                   driver, hist, sensors, callbacks, taskMutex, timer, nvml, age>>

\* return *instance; the lock_guard releases instanceMutex.
GetInstanceReturn(t) ==
    /\ pc[t] = "gi_return"
    /\ singleton' = [singleton EXCEPT !.instanceMutex = @ \ {t},
                                      !.got[t] = singleton.instance]
    /\ pc' = [pc EXCEPT ![t] = "idle"]
    /\ UNCHANGED <<migMode, migDevices, latestMetrics, monitoringActive, workerActive,
                   monitoringThread, metricsMutex, taskQueue, op, rIdx, newDevices,
                   readBuf, iter, mMetrics, thr, curTask, wOk, terminated, submitted,
                   execLog, cbLog, dirty, rClean, pubClean, notified, opsLeft, devices, init,
                   driver, hist, sensors, callbacks, taskMutex, timer, nvml, age>>

\* The constructor has thrown: the object is destroyed, the exception leaves
\* getInstance before the assignment to `instance`, and the lock_guard
\* releases instanceMutex. The caller may call again.
GetInstanceThrows(t) ==
    /\ pc[t] = "ctor_failed"
    /\ singleton' = [singleton EXCEPT !.instanceMutex = @ \ {t}]
    /\ pc' = [pc EXCEPT ![t] = "start"]
    /\ UNCHANGED <<migMode, migDevices, latestMetrics, monitoringActive, workerActive,
                   monitoringThread, metricsMutex, taskQueue, op, rIdx, newDevices,
                   readBuf, iter, mMetrics, thr, curTask, wOk, terminated, submitted,
                   execLog, cbLog, dirty, rClean, pubClean, notified, opsLeft, devices, init,
                   driver, hist, sensors, callbacks, taskMutex, timer, nvml, age>>

\* Whether construction has returned an instance.
Running == pc[Worker] # "none"

\* ------------------------------------------------------- facade: callers
\* devices[deviceIndex]: the handle (driver index) at an inventory position; a
\* position past the end holds no device's handle.
Handle(i) == IF i < Len(devices) THEN devices[i + 1] ELSE NumDevices

\* A caller may start a facade call while the manager object exists.
CanCall(t) ==
    /\ ~terminated
    /\ pc[t] = "idle"
    /\ opsLeft > 0
    /\ \A c \in Callers : op[c].kind # "dtor"

\* An index check that lets the first out-of-range index through.
IndexPastEnd(d) == d > Len(devices)

\* if (deviceIndex >= devices.size())
IndexInvalid(d) == d >= Len(devices)

\* A synchronous branch that does not look at the driver's result.
DriverFailureIgnored(ok) == FALSE

\* if (result != NVML_SUCCESS)
DriverFailed(ok) == ~ok

\* The invocations (by success flag) that follow from callback(true, ...)
\* inside the try block: when it raises, the catch block of the same try runs
\* callback(false, e.what()).
SuccessInvocations(r) == IF r = Raises THEN <<TRUE, FALSE>> ELSE <<TRUE>>

\* enableMIGMode / disableMIGMode(deviceIndex, async, callback): the index
\* check (callback(false, ...) and return false), the async branch (push under
\* taskMutex, notify, return true) and the entry into the synchronous driver
\* call.
SetMIGModeCall(t, enable, d, async, cb) ==
    /\ CanCall(t)
    /\ opsLeft' = opsLeft - 1
    /\ LET call == [NoOp EXCEPT !.kind = IF enable THEN "enable" ELSE "disable",
                                !.dev = d, !.async = async, !.cb = cb]
       IN IF IndexInvalid(d)
          THEN /\ op' = [op EXCEPT ![t] = [call EXCEPT !.ret = "false",
                                   !.cbs = IF cb THEN <<FALSE>> ELSE <<>>]]
               /\ pc' = [pc EXCEPT ![t] = "c_ret"]
               /\ UNCHANGED <<taskQueue, submitted>>
          ELSE IF async /\ taskMutex.on
          THEN /\ pc' = [pc EXCEPT ![t] = "enq_lock"]
               /\ op' = [op EXCEPT ![t] = call]
               /\ UNCHANGED <<taskQueue, submitted>>
          ELSE IF async
          THEN /\ taskQueue' = Append(taskQueue,
                       [NoTask EXCEPT !.id = Len(submitted) + 1, !.enable = enable,
                                       !.dev = d, !.cb = cb])
               /\ submitted' = Append(submitted, cb)
               /\ op' = [op EXCEPT ![t] = [call EXCEPT !.ret = "true"]]
               /\ pc' = [pc EXCEPT ![t] = "c_ret"]
          ELSE /\ pc' = [pc EXCEPT ![t] = "s_setmig"]
               /\ op' = [op EXCEPT ![t] = call]
               /\ UNCHANGED <<taskQueue, submitted>>
    /\ UNCHANGED <<migMode, migDevices, latestMetrics, monitoringActive, workerActive,
                   monitoringThread, metricsMutex, rIdx, newDevices, readBuf, iter,
                   mMetrics, thr, curTask, wOk, terminated, execLog, cbLog,
                   dirty, rClean, pubClean, notified, devices, init, driver, hist, sensors, callbacks, taskMutex, timer, singleton, nvml, age>>

enableMIGMode(t) ==
    \E d \in 0..NumDevices, async \in BOOLEAN, cb \in BOOLEAN :
        SetMIGModeCall(t, TRUE, d, async, cb)

disableMIGMode(t) ==
    \E d \in 0..NumDevices, async \in BOOLEAN, cb \in BOOLEAN :
        SetMIGModeCall(t, FALSE, d, async, cb)

\* The synchronous nvmlDeviceSetMigMode returns on the caller's thread: on a
\* failure callback(false, nvmlErrorString(result)) and return false, else on
\* to refreshMIGDevices.
SyncSetMigMode(t) ==
    /\ ~terminated
    /\ t \in Callers
    /\ pc[t] = "s_setmig"
    /\ \E ok \in BOOLEAN :
        /\ migMode' = IF ok THEN [migMode EXCEPT ![Handle(op[t].dev)] = (op[t].kind = "enable")]
                             ELSE migMode
        /\ dirty' = (dirty \/ (pc[Worker] \in {"w_refresh", "w_cb"}
                               /\ migMode'[Handle(op[t].dev)] # migMode[Handle(op[t].dev)]))
        /\ IF DriverFailed(ok)
           THEN /\ pc' = [pc EXCEPT ![t] = "c_ret"]
                /\ op' = [op EXCEPT ![t].drv = "fail", ![t].ret = "false",
                                     ![t].cbs = IF op[t].cb THEN <<FALSE>> ELSE <<>>]
                /\ UNCHANGED <<rIdx, newDevices>>
           ELSE /\ pc' = [pc EXCEPT ![t] = "s_refresh"]
                /\ op' = [op EXCEPT ![t].drv = IF ok THEN "ok" ELSE "fail"]
                /\ rIdx' = [rIdx EXCEPT ![t] = 0]
                /\ newDevices' = [newDevices EXCEPT ![t] = EmptyMap]
    /\ age' = Mutated(age, migMode, migMode')
    /\ UNCHANGED <<migDevices, latestMetrics, monitoringActive, workerActive,
                   monitoringThread, metricsMutex, taskQueue, readBuf, iter, mMetrics,
                   thr, curTask, wOk, terminated, submitted, execLog, cbLog,
                   rClean, pubClean, notified, opsLeft, devices, init, driver, hist, sensors, callbacks, taskMutex, timer, singleton, nvml>>

\* After the refresh: callback(true, ...) and return true; an exception of
\* the callback is caught: callback(false, e.what()) and return false.
SyncReturn(t) ==
    /\ ~terminated
    /\ t \in Callers
    /\ pc[t] = "s_ret"
    /\ pc' = [pc EXCEPT ![t] = "c_ret"]
    /\ \E r \in (IF op[t].cb THEN callbacks ELSE {Returns}) :
          op' = [op EXCEPT ![t].ret = IF r = Raises THEN "false" ELSE "true",
                           ![t].cbs = IF op[t].cb THEN SuccessInvocations(r) ELSE <<>>]
    /\ UNCHANGED <<migMode, migDevices, latestMetrics, monitoringActive, workerActive,
                   monitoringThread, metricsMutex, taskQueue, rIdx, newDevices, readBuf,
                   iter, mMetrics, thr, curTask, wOk, terminated, submitted, execLog,
                   cbLog, dirty, rClean, pubClean, notified, opsLeft,
                   devices, init, driver, hist, sensors, callbacks, taskMutex, timer, singleton, nvml, age>>

\* enableMIGMode / disableMIGMode returns to its caller.
CallReturn(t) ==
    /\ ~terminated
    /\ t \in Callers
    /\ pc[t] = "c_ret"
    /\ pc' = [pc EXCEPT ![t] = "idle"]
    /\ op' = [op EXCEPT ![t] = NoOp]
    /\ hist' = Log(hist, op[t])
    /\ UNCHANGED <<migMode, migDevices, latestMetrics, monitoringActive, workerActive,
                   monitoringThread, metricsMutex, taskQueue, rIdx, newDevices, readBuf,
                   iter, mMetrics, thr, curTask, wOk, terminated, submitted, execLog,
                   cbLog, dirty, rClean, pubClean, notified, opsLeft,
                   devices, init, driver, sensors, callbacks, taskMutex, timer, singleton, nvml, age>>

\* The facade call isMIGModeEnabled(deviceIndex): false for an index outside
\* the inventory, else one nvmlDeviceGetMigMode query, whose failure reads as
\* "not enabled".
isMIGModeEnabledCall(t) ==
    /\ CanCall(t)
    /\ opsLeft' = opsLeft - 1
    /\ \E d \in 0..NumDevices :
       \E ok \in (IF IndexInvalid(d) THEN {TRUE} ELSE BOOLEAN) :
          op' = [op EXCEPT ![t] =
                  [NoOp EXCEPT !.kind = "isEnabled", !.dev = d,
                               !.ret = IF ~IndexInvalid(d)
                                          /\ isMIGModeEnabled(migMode, Handle(d), ok)
                                       THEN "true" ELSE "false"]]
    /\ pc' = [pc EXCEPT ![t] = "c_ret"]
    /\ UNCHANGED <<migMode, migDevices, latestMetrics, monitoringActive, workerActive,
                   monitoringThread, metricsMutex, taskQueue, rIdx, newDevices, readBuf,
                   iter, mMetrics, thr, curTask, wOk, terminated, submitted, execLog,
                   cbLog, dirty, rClean, pubClean, notified,
                   devices, init, driver, hist, sensors, callbacks, taskMutex, timer, singleton, nvml, age>>

\* ------------------------------------------------------ registry readers
\* getAllMIGDevices(): refreshes, then copies the registry under metricsMutex.
getAllMIGDevices(t) ==
    /\ CanCall(t)
    /\ opsLeft' = opsLeft - 1
    /\ op' = [op EXCEPT ![t] = [NoOp EXCEPT !.kind = "getAll"]]
    /\ pc' = [pc EXCEPT ![t] = "g_refresh"]
    /\ rIdx' = [rIdx EXCEPT ![t] = 0]
    /\ newDevices' = [newDevices EXCEPT ![t] = EmptyMap]
    /\ UNCHANGED <<migMode, migDevices, latestMetrics, monitoringActive, workerActive,
                   monitoringThread, metricsMutex, taskQueue, readBuf, iter, mMetrics, thr,
                   curTask, wOk, terminated, submitted, execLog, cbLog, dirty, rClean, pubClean, notified,
                   devices, init, driver, hist, sensors, callbacks, taskMutex, timer, singleton, nvml, age>>

\* getMIGDevices(deviceIndex): an index outside the inventory returns the empty
\* vector at once; otherwise refresh, then copy that device's entries.
getMIGDevices(t) ==
    /\ CanCall(t)
    /\ opsLeft' = opsLeft - 1
    /\ \E d \in 0..NumDevices :
        IF d >= Len(devices)
        THEN /\ UNCHANGED <<op, pc, rIdx, newDevices>>
        ELSE /\ op' = [op EXCEPT ![t] = [NoOp EXCEPT !.kind = "getDev", !.dev = d]]
             /\ pc' = [pc EXCEPT ![t] = "g_refresh"]
             /\ rIdx' = [rIdx EXCEPT ![t] = 0]
             /\ newDevices' = [newDevices EXCEPT ![t] = EmptyMap]
    /\ UNCHANGED <<migMode, migDevices, latestMetrics, monitoringActive, workerActive,
                   monitoringThread, metricsMutex, taskQueue, readBuf, iter, mMetrics, thr,
                   curTask, wOk, terminated, submitted, execLog, cbLog, dirty, rClean, pubClean, notified,
                   devices, init, driver, hist, sensors, callbacks, taskMutex, timer, singleton, nvml, age>>

\* Whether the copy loop of a read keeps the registry entry of uuid u.
Selected(o, info) == o.kind = "getAll" \/ info.parentDeviceIndex = o.dev

\* std::lock_guard on metricsMutex at the head of a reader's copy block.
ReaderLockFree(t) == metricsMutex = {}

ReadLock(t) ==
    /\ ~terminated
    /\ t \in Callers
    /\ pc[t] = "g_lock"
    /\ ReaderLockFree(t)
    /\ metricsMutex' = {t}
    /\ iter' = [iter EXCEPT ![t] = 0]
    /\ pc' = [pc EXCEPT ![t] = "g_iter"]
    /\ UNCHANGED <<migMode, migDevices, latestMetrics, monitoringActive, workerActive,
                   monitoringThread, taskQueue, op, rIdx, newDevices, readBuf, mMetrics,
                   thr, curTask, wOk, terminated, submitted, execLog, cbLog,
                   dirty, rClean, pubClean, notified, opsLeft,
                   devices, init, driver, hist, sensors, callbacks, taskMutex, timer, singleton, nvml, age>>

\* One step of the range-for over migDevices (keys in increasing order), and,
\* past the last key, the end of the locked block and the return.
ReadIterate(t) ==
    /\ ~terminated
    /\ t \in Callers
    /\ pc[t] = "g_iter"
    /\ IF iter[t] < NumDevices
       THEN /\ readBuf' = [readBuf EXCEPT ![t] =
                  LET keep == {u \in DOMAIN migDevices :
                                 DevOfUuid(u) = iter[t] /\ Selected(op[t], migDevices[u])}
                  IN [u \in keep |-> migDevices[u]] @@ @]
            /\ iter' = [iter EXCEPT ![t] = @ + 1]
            /\ UNCHANGED <<metricsMutex, pc, op, hist>>
       ELSE /\ metricsMutex' = metricsMutex \ {t}
            /\ pc' = [pc EXCEPT ![t] = "idle"]
            /\ op' = [op EXCEPT ![t] = NoOp]
            /\ readBuf' = [readBuf EXCEPT ![t] = EmptyMap]
            /\ iter' = [iter EXCEPT ![t] = 0]
            /\ hist' = Log(hist, op[t])
    /\ UNCHANGED <<migMode, migDevices, latestMetrics, monitoringActive, workerActive,
                   monitoringThread, taskQueue, rIdx, newDevices, mMetrics, thr,
                   curTask, wOk, terminated, submitted, execLog, cbLog, dirty, rClean, pubClean, notified,
                   opsLeft, devices, init, driver, sensors, callbacks, taskMutex, timer, singleton, nvml, age>>

\* findMIGDeviceByUUID(uuid): one lookup under metricsMutex; the optional it
\* returns holds a copy of the registry entry, or nothing.
findMIGDeviceByUUID(t) ==
    /\ CanCall(t)
    /\ metricsMutex = {}
    /\ opsLeft' = opsLeft - 1
    /\ \E u \in UUIDs \cup DOMAIN migDevices \cup {0} :
        /\ op' = [op EXCEPT ![t] = [NoOp EXCEPT !.kind = "find", !.uuid = u]]
        /\ readBuf' = [readBuf EXCEPT ![t] =
              IF u \in DOMAIN migDevices THEN u :> migDevices[u] ELSE EmptyMap]
    /\ pc' = [pc EXCEPT ![t] = "f_ret"]
    /\ UNCHANGED <<migMode, migDevices, latestMetrics, monitoringActive, workerActive,
                   monitoringThread, metricsMutex, taskQueue, rIdx, newDevices,
                   iter, mMetrics, thr, curTask, wOk, terminated, submitted, execLog,
                   cbLog, dirty, rClean, pubClean, notified, devices, init, driver, hist, sensors, callbacks, taskMutex, timer, singleton, nvml, age>>

\* The caller has the optional in hand and goes on.
FindReturn(t) ==
    /\ ~terminated
    /\ t \in Callers
    /\ pc[t] = "f_ret"
    /\ pc' = [pc EXCEPT ![t] = "idle"]
    /\ op' = [op EXCEPT ![t] = NoOp]
    /\ readBuf' = [readBuf EXCEPT ![t] = EmptyMap]
    /\ UNCHANGED <<migMode, migDevices, latestMetrics, monitoringActive, workerActive,
                   monitoringThread, metricsMutex, taskQueue, rIdx, newDevices,
                   iter, mMetrics, thr, curTask, wOk, terminated, submitted, execLog,
                   cbLog, dirty, rClean, pubClean, notified, opsLeft, devices, init, driver, hist, sensors, callbacks, taskMutex, timer, singleton, nvml, age>>

\* A count taken from the registry instead of the inventory.
RegistrySize == Cardinality(DOMAIN migDevices)

\* devices.size()
DeviceCount == Len(devices)

\* getDeviceCount(): devices.size(), without any lock.
getDeviceCount(t) ==
    /\ CanCall(t)
    /\ opsLeft' = opsLeft - 1
    /\ hist' = Log(hist, [NoOp EXCEPT !.kind = "count", !.ret = DeviceCount])
    /\ UNCHANGED <<migMode, migDevices, latestMetrics, monitoringActive, workerActive,
                   monitoringThread, metricsMutex, taskQueue, pc, op, rIdx, newDevices,
                   readBuf, iter, mMetrics, thr, curTask, wOk, terminated, submitted,
                   execLog, cbLog, dirty, rClean, pubClean, notified,
                   devices, init, driver, sensors, callbacks, taskMutex, timer, singleton, nvml, age>>

\* --------------------------------------------------------------- metrics
\* A collection that yields no snapshot.
CollectNone(reg) == {EmptyMap}

\* The results collectDeviceMetrics can give for every entry of a registry
\* map: one collection, with its own driver answers, per entry.
CollectAll(reg) ==
    LET runs == {r \in [a : sensors, g : UNION {Unassigned(x) : x \in sensors}] :
                   r.g \in Unassigned(r.a)}
    IN {[u \in DOMAIN reg |-> MIGMetrics(reg[u], f[u].a, f[u].g)] :
           f \in [DOMAIN reg -> runs]}

\* A lookup that never finds a cached snapshot.
CacheNeverHit(u) == FALSE

\* latestMetrics.find(uuid) != latestMetrics.end()
CacheHit(u) == u \in DOMAIN latestMetrics

\* A lookup that finds every uuid in the registry.
AlwaysRegistered(u) == TRUE

\* migDevices.find(uuid) != migDevices.end()
Registered(u) == u \in DOMAIN migDevices

\* getMIGDeviceMetrics(uuid): the whole body runs under one lock_guard. A
\* cached snapshot is returned at once; a cache miss on a registered uuid goes
\* on to collectDeviceMetrics with the lock held; otherwise std::nullopt.
getMIGDeviceMetrics(t) ==
    /\ CanCall(t)
    /\ metricsMutex = {}
    /\ opsLeft' = opsLeft - 1
    /\ \E u \in UUIDs \cup {0} :
        IF CacheHit(u)
        THEN /\ op' = [op EXCEPT ![t] =
                     [NoOp EXCEPT !.kind = "metrics", !.uuid = u, !.ret = "cached"]]
             /\ readBuf' = [readBuf EXCEPT ![t] = u :> latestMetrics[u]]
             /\ pc' = [pc EXCEPT ![t] = "mt_ret"]
             /\ UNCHANGED metricsMutex
        ELSE IF Registered(u)
        THEN /\ metricsMutex' = {t}
             /\ pc' = [pc EXCEPT ![t] = "gm_collect"]
             /\ op' = [op EXCEPT ![t] = [NoOp EXCEPT !.kind = "metrics", !.uuid = u]]
             /\ UNCHANGED readBuf
        ELSE /\ op' = [op EXCEPT ![t] =
                     [NoOp EXCEPT !.kind = "metrics", !.uuid = u, !.ret = "notfound"]]
             /\ pc' = [pc EXCEPT ![t] = "mt_ret"]
             /\ UNCHANGED <<metricsMutex, readBuf>>
    /\ UNCHANGED <<migMode, migDevices, latestMetrics, monitoringActive, workerActive,
                   monitoringThread, taskQueue, rIdx, newDevices, iter,
                   mMetrics, thr, curTask, wOk, terminated, submitted, execLog, cbLog,
                   dirty, rClean, pubClean, notified, devices, init, driver, hist, sensors, callbacks, taskMutex, timer, singleton, nvml, age>>

\* A test that never sees an empty cache.
CacheNeverEmpty == FALSE

\* latestMetrics.empty()
CacheEmpty == latestMetrics = EmptyMap

\* getAllMIGMetrics(): under one lock_guard, collectDeviceMetrics for every
\* registry entry when the cache is empty, else a copy of the cache.
getAllMIGMetrics(t) ==
    /\ CanCall(t)
    /\ metricsMutex = {}
    /\ opsLeft' = opsLeft - 1
    /\ IF CacheEmpty
       THEN IF migDevices # EmptyMap
            THEN /\ metricsMutex' = {t}
                 /\ pc' = [pc EXCEPT ![t] = "am_collect"]
                 /\ op' = [op EXCEPT ![t] = [NoOp EXCEPT !.kind = "allMetrics"]]
                 /\ UNCHANGED readBuf
            ELSE /\ op' = [op EXCEPT ![t] =
                         [NoOp EXCEPT !.kind = "allMetrics", !.ret = "collected"]]
                 /\ pc' = [pc EXCEPT ![t] = "mt_ret"]
                 /\ UNCHANGED <<metricsMutex, readBuf>>
       ELSE /\ op' = [op EXCEPT ![t] =
                    [NoOp EXCEPT !.kind = "allMetrics", !.ret = "cached"]]
            /\ readBuf' = [readBuf EXCEPT ![t] = latestMetrics]
            /\ pc' = [pc EXCEPT ![t] = "mt_ret"]
            /\ UNCHANGED metricsMutex
    /\ UNCHANGED <<migMode, migDevices, latestMetrics, monitoringActive, workerActive,
                   monitoringThread, taskQueue, rIdx, newDevices, iter,
                   mMetrics, thr, curTask, wOk, terminated, submitted, execLog, cbLog,
                   dirty, rClean, pubClean, notified, devices, init, driver, hist, sensors, callbacks, taskMutex, timer, singleton, nvml, age>>

\* An on-demand collection that stores what it collected in the cache.
CacheFilledByCollect(c) == c @@ latestMetrics

\* The cache after an on-demand collection: the getters return the result of
\* collectDeviceMetrics (or the local map) and assign nothing to latestMetrics.
CacheAfterCollect(c) == latestMetrics

\* The driver calls of collectDeviceMetrics return; the lock_guard is released
\* as the facade call returns what was collected.
CollectReturn(t) ==
    /\ ~terminated
    /\ t \in Callers
    /\ pc[t] \in {"gm_collect", "am_collect"}
    /\ \E c \in CollectAll(IF pc[t] = "gm_collect"
                            THEN [u \in {op[t].uuid} \cap DOMAIN migDevices |-> migDevices[u]]
                            ELSE migDevices) :
          /\ readBuf' = [readBuf EXCEPT ![t] = c]
          /\ latestMetrics' = CacheAfterCollect(c)
    /\ metricsMutex' = metricsMutex \ {t}
    /\ pc' = [pc EXCEPT ![t] = "mt_ret"]
    /\ op' = [op EXCEPT ![t].ret = "collected"]
    /\ UNCHANGED <<migMode, migDevices, monitoringActive, workerActive,
                   monitoringThread, taskQueue, rIdx, newDevices, iter,
                   mMetrics, thr, curTask, wOk, terminated, submitted, execLog, cbLog,
                   dirty, rClean, pubClean, notified, opsLeft,
                   devices, init, driver, hist, sensors, callbacks, taskMutex, timer, singleton, nvml, age>>

\* The caller has the snapshot, the map or std::nullopt in hand and goes on.
MetricsReturn(t) ==
    /\ ~terminated
    /\ t \in Callers
    /\ pc[t] = "mt_ret"
    /\ pc' = [pc EXCEPT ![t] = "idle"]
    /\ op' = [op EXCEPT ![t] = NoOp]
    /\ readBuf' = [readBuf EXCEPT ![t] = EmptyMap]
    /\ UNCHANGED <<migMode, migDevices, latestMetrics, monitoringActive, workerActive,
                   monitoringThread, metricsMutex, taskQueue, rIdx, newDevices, iter,
                   mMetrics, thr, curTask, wOk, terminated, submitted, execLog, cbLog,
                   dirty, rClean, pubClean, notified, opsLeft,
                   devices, init, driver, hist, sensors, callbacks, taskMutex, timer, singleton, nvml, age>>

\* ---------------------------------------------------------------- worker
\* while (workerActive)
WorkerTest ==
    /\ ~terminated
    /\ pc[Worker] = "w_test"
    /\ pc' = [pc EXCEPT ![Worker] = IF workerActive THEN "w_wait" ELSE "exited"]
    /\ UNCHANGED <<migMode, migDevices, latestMetrics, monitoringActive, workerActive,
                   monitoringThread, metricsMutex, taskQueue, op, rIdx, newDevices,
                   readBuf, iter, mMetrics, thr, curTask, wOk, terminated, submitted,
                   execLog, cbLog, dirty, rClean, pubClean, notified, opsLeft,
                   devices, init, driver, hist, sensors, callbacks, taskMutex, timer, singleton, nvml, age>>

\* A worker that takes the newest task instead of the oldest.
QueueBack(q) == Len(q)

\* The position in the queue that workerLoop takes: taskQueue.front().
QueueFront(q) == 1

RemoveAt(q, i) == SubSeq(q, 1, i - 1) \o SubSeq(q, i + 1, Len(q))

\* A worker that never takes the break.
StopIgnored == FALSE

\* if (!workerActive) break; tested under taskMutex after the wait.
StopObserved == ~workerActive

\* taskCV.wait(lock, !workerActive || !taskQueue.empty()); break when stopping,
\* else front() and pop() when the queue is not empty; with an empty task the
\* loop goes back to its head.
WorkerWait ==
    /\ ~terminated
    /\ pc[Worker] = (IF taskMutex.on THEN "w_locked" ELSE "w_wait")
    /\ ~workerActive \/ taskQueue # <<>>
    /\ taskMutex' = Released(taskMutex, Worker)
    /\ IF StopObserved
       THEN /\ pc' = [pc EXCEPT ![Worker] = "exited"]
            /\ UNCHANGED <<taskQueue, curTask, execLog>>
       ELSE IF taskQueue # <<>>
       THEN /\ curTask' = taskQueue[QueueFront(taskQueue)]
            /\ taskQueue' = RemoveAt(taskQueue, QueueFront(taskQueue))
            /\ execLog' = Append(execLog, curTask'.id)
            /\ pc' = [pc EXCEPT ![Worker] = "w_setmig"]
       ELSE /\ pc' = [pc EXCEPT ![Worker] = "w_test"]
            /\ UNCHANGED <<taskQueue, curTask, execLog>>
    /\ UNCHANGED <<migMode, migDevices, latestMetrics, monitoringActive, workerActive,
                   monitoringThread, metricsMutex, op, rIdx, newDevices, readBuf, iter,
                   mMetrics, thr, wOk, terminated, submitted, cbLog,
                   dirty, rClean, pubClean, notified, opsLeft,
                   devices, init, driver, hist, sensors, callbacks, timer, singleton, nvml, age>>

\* std::unique_lock on taskMutex at the head of the wait block.
WorkerLock ==
    /\ ~terminated
    /\ taskMutex.on
    /\ pc[Worker] = "w_wait"
    /\ taskMutex.holder = {}
    /\ taskMutex' = Locked(taskMutex, Worker)
    /\ pc' = [pc EXCEPT ![Worker] = "w_locked"]
    /\ UNCHANGED <<migMode, migDevices, latestMetrics, monitoringActive, workerActive,
                   monitoringThread, metricsMutex, taskQueue, op, rIdx, newDevices,
                   readBuf, iter, mMetrics, thr, curTask, wOk, terminated, submitted,
                   execLog, cbLog, dirty, rClean, pubClean, notified, opsLeft,
                   devices, init, driver, hist, sensors, callbacks, timer, singleton, nvml, age>>

\* taskCV.wait with a false predicate: the lock is released and the worker
\* blocks until a notification (or a spurious wakeup) makes it take the lock
\* and test the predicate again.
WorkerBlock ==
    /\ ~terminated
    /\ pc[Worker] = "w_locked"
    /\ workerActive /\ taskQueue = <<>>
    /\ taskMutex' = Released(taskMutex, Worker)
    /\ pc' = [pc EXCEPT ![Worker] = "w_wait"]
    /\ UNCHANGED <<migMode, migDevices, latestMetrics, monitoringActive, workerActive,
                   monitoringThread, metricsMutex, taskQueue, op, rIdx, newDevices,
                   readBuf, iter, mMetrics, thr, curTask, wOk, terminated, submitted,
                   execLog, cbLog, dirty, rClean, pubClean, notified, opsLeft,
                   devices, init, driver, hist, sensors, callbacks, timer, singleton, nvml, age>>

\* A task that goes on after a failed driver call.
TaskNeverThrows(ok) == FALSE

\* The async task: if (result != NVML_SUCCESS) throw NVMLException(...).
TaskThrows(ok) == ~ok

\* task.task(): nvmlDeviceSetMigMode returns on the worker; a failure is thrown
\* to the catch block, a success goes on to refreshMIGDevices.
WorkerTask ==
    /\ ~terminated
    /\ pc[Worker] = "w_setmig"
    /\ \E ok \in BOOLEAN :
        /\ migMode' = IF ok THEN [migMode EXCEPT ![Handle(curTask.dev)] = curTask.enable]
                             ELSE migMode
        /\ curTask' = [curTask EXCEPT !.drv = IF ok THEN "ok" ELSE "fail"]
        /\ IF TaskThrows(ok)
           THEN /\ wOk' = FALSE
                /\ pc' = [pc EXCEPT ![Worker] = "w_cb"]
                /\ UNCHANGED <<dirty, rIdx, newDevices>>
           ELSE /\ dirty' = FALSE
                /\ wOk' = TRUE
                /\ pc' = [pc EXCEPT ![Worker] = "w_refresh"]
                /\ rIdx' = [rIdx EXCEPT ![Worker] = 0]
                /\ newDevices' = [newDevices EXCEPT ![Worker] = EmptyMap]
    /\ age' = Mutated(age, migMode, migMode')
    /\ UNCHANGED <<migDevices, latestMetrics, monitoringActive, workerActive,
                   monitoringThread, metricsMutex, taskQueue, op, readBuf, iter,
                   mMetrics, thr, terminated, submitted, execLog, cbLog,
                   rClean, pubClean, notified, opsLeft, devices, init, driver, hist, sensors, callbacks, taskMutex, timer, singleton, nvml>>

\* The completion callback as workerLoop invokes it for a finished task.
CallbackRecord(task, ok) ==
    [id |-> task.id, success |-> ok,
     message |-> IF ok THEN "task succeeded" ELSE "driver error"]

\* The invocations (by success flag) workerLoop makes for a finished task:
\* callback(true, ...) in the try block and, when that raises, callback(false,
\* e.what()) in the catch block; callback(false, ...) alone for a thrown task.
WorkerInvocations(ok, r) == IF ok THEN SuccessInvocations(r) ELSE <<FALSE>>

\* if (task.callback) task.callback(...), then back to the loop head.
WorkerCallback ==
    /\ ~terminated
    /\ pc[Worker] = "w_cb"
    /\ \E r \in (IF curTask.cb /\ wOk THEN callbacks ELSE {Returns}) :
          cbLog' = IF curTask.cb
                   THEN cbLog \o [i \in 1..Len(WorkerInvocations(wOk, r)) |->
                                    [CallbackRecord(curTask, WorkerInvocations(wOk, r)[i])
                                        EXCEPT !.message = IF i = 2 THEN "callback error" ELSE @]]
                   ELSE cbLog
    /\ curTask' = NoTask
    /\ wOk' = FALSE
    /\ dirty' = FALSE
    /\ pc' = [pc EXCEPT ![Worker] = "w_test"]
    /\ UNCHANGED <<migMode, migDevices, latestMetrics, monitoringActive, workerActive,
                   monitoringThread, metricsMutex, taskQueue, op, rIdx, newDevices,
                   readBuf, iter, mMetrics, thr, terminated, submitted, execLog,
                   rClean, pubClean, notified, opsLeft, devices, init, driver, hist, sensors, callbacks, taskMutex, timer, singleton, nvml, age>>

\* ----------------------------------------------------------- refresh loop
\* while (monitoringActive): refreshMIGDevices() is the first statement.
MonitorTest(m) ==
    /\ ~terminated
    /\ pc[m] = "m_test"
    /\ IF monitoringActive
       THEN /\ pc' = [pc EXCEPT ![m] = "m_refresh"]
            /\ rIdx' = [rIdx EXCEPT ![m] = 0]
            /\ newDevices' = [newDevices EXCEPT ![m] = EmptyMap]
       ELSE /\ pc' = [pc EXCEPT ![m] = "exited"]
            /\ UNCHANGED <<rIdx, newDevices>>
    /\ UNCHANGED <<migMode, migDevices, latestMetrics, monitoringActive, workerActive,
                   monitoringThread, metricsMutex, taskQueue, op, readBuf, iter,
                   mMetrics, thr, curTask, wOk, terminated, submitted, execLog, cbLog,
                   dirty, rClean, pubClean, notified, opsLeft,
                   devices, init, driver, hist, sensors, callbacks, taskMutex, timer, singleton, nvml, age>>

\* The first locked block of monitoringLoop: lock_guard, then the range-for
\* that calls collectDeviceMetrics per entry (none for an empty registry).
MonitorLock(m) ==
    /\ ~terminated
    /\ pc[m] = "m_lock"
    /\ metricsMutex = {}
    /\ IF migDevices = EmptyMap
       THEN /\ mMetrics' = [mMetrics EXCEPT ![m] = EmptyMap]
            /\ pc' = [pc EXCEPT ![m] = "m_publish"]
            /\ UNCHANGED metricsMutex
       ELSE /\ metricsMutex' = {m}
            /\ pc' = [pc EXCEPT ![m] = "m_collect"]
            /\ UNCHANGED mMetrics
    /\ UNCHANGED <<migMode, migDevices, latestMetrics, monitoringActive, workerActive,
                   monitoringThread, taskQueue, op, rIdx, newDevices, readBuf, iter,
                   thr, curTask, wOk, terminated, submitted, execLog, cbLog,
                   dirty, rClean, pubClean, notified, opsLeft,
                   devices, init, driver, hist, sensors, callbacks, taskMutex, timer, singleton, nvml, age>>

\* The driver calls of the collection return and the locked block ends.
MonitorCollect(m) ==
    /\ ~terminated
    /\ pc[m] = "m_collect"
    /\ \E c \in CollectAll(migDevices) : mMetrics' = [mMetrics EXCEPT ![m] = c]
    /\ metricsMutex' = metricsMutex \ {m}
    /\ pc' = [pc EXCEPT ![m] = "m_publish"]
    /\ UNCHANGED <<migMode, migDevices, latestMetrics, monitoringActive, workerActive,
                   monitoringThread, taskQueue, op, rIdx, newDevices, readBuf, iter,
                   thr, curTask, wOk, terminated, submitted, execLog, cbLog,
                   dirty, rClean, pubClean, notified, opsLeft,
                   devices, init, driver, hist, sensors, callbacks, taskMutex, timer, singleton, nvml, age>>

\* The second locked block: latestMetrics = move(metrics).
MonitorPublish(m) ==
    /\ ~terminated
    /\ pc[m] = "m_publish"
    /\ metricsMutex = {}
    /\ latestMetrics' = mMetrics[m]
    /\ mMetrics' = [mMetrics EXCEPT ![m] = EmptyMap]
    /\ pc' = [pc EXCEPT ![m] = "m_wait"]
    /\ UNCHANGED <<migMode, migDevices, monitoringActive, workerActive,
                   monitoringThread, metricsMutex, taskQueue, op, rIdx, newDevices,
                   readBuf, iter, thr, curTask, wOk, terminated, submitted, execLog,
                   cbLog, dirty, rClean, pubClean, notified, opsLeft,
                   devices, init, driver, hist, sensors, callbacks, taskMutex, timer, singleton, nvml, age>>

\* monitoringCV.wait_for(lock, WaitMs, !monitoringActive): unique_lock on
\* metricsMutex, then the predicate is tested with the lock held. When the flag
\* is already cleared wait_for returns at once and the lock is released.
MonitorWait(m) ==
    /\ ~terminated
    /\ pc[m] = "m_wait"
    /\ metricsMutex = {}
    /\ IF monitoringActive
       THEN /\ metricsMutex' = {m}
            /\ pc' = [pc EXCEPT ![m] = "m_block"]
       ELSE /\ pc' = [pc EXCEPT ![m] = "m_test"]
            /\ UNCHANGED metricsMutex
    /\ timer' = IF timer.on THEN [timer EXCEPT !.waited[m] = WaitMs] ELSE timer
    /\ UNCHANGED <<migMode, migDevices, latestMetrics, monitoringActive, workerActive,
                   monitoringThread, taskQueue, op, rIdx, newDevices,
                   readBuf, iter, mMetrics, thr, curTask, wOk, terminated, submitted,
                   execLog, cbLog, dirty, rClean, pubClean, notified, opsLeft,
                   devices, init, driver, hist, sensors, callbacks, taskMutex, singleton, nvml, age>>

\* The predicate was false: the thread releases the lock and blocks on
\* monitoringCV in one atomic step. A notification sent before this step is
\* not seen by it.
MonitorBlock(m) ==
    /\ ~terminated
    /\ pc[m] = "m_block"
    /\ metricsMutex' = metricsMutex \ {m}
    /\ pc' = [pc EXCEPT ![m] = "m_sleep"]
    /\ UNCHANGED <<migMode, migDevices, latestMetrics, monitoringActive, workerActive,
                   monitoringThread, taskQueue, op, rIdx, newDevices,
                   readBuf, iter, mMetrics, thr, curTask, wOk, terminated, submitted,
                   execLog, cbLog, dirty, rClean, pubClean, notified, opsLeft,
                   devices, init, driver, hist, sensors, callbacks, taskMutex, timer, singleton, nvml, age>>

\* The blocked thread wakes: by a notification that reached it, or because the
\* 1000 ms have elapsed. It re-takes the lock and tests the predicate again;
\* after a notification with the flag still set it blocks again, otherwise
\* wait_for returns and the lock is released.
MonitorWake(m) ==
    /\ ~terminated
    /\ pc[m] = "m_sleep"
    /\ metricsMutex = {}
    /\ notified' = notified \ {m}
    /\ \E timeout \in (IF m \in notified THEN BOOLEAN ELSE {TRUE}) :
        IF timeout \/ ~monitoringActive
        THEN /\ pc' = [pc EXCEPT ![m] = "m_test"]
             /\ UNCHANGED metricsMutex
        ELSE /\ pc' = [pc EXCEPT ![m] = "m_block"]
             /\ metricsMutex' = {m}
    /\ UNCHANGED <<migMode, migDevices, latestMetrics, monitoringActive, workerActive,
                   monitoringThread, taskQueue, op, rIdx, newDevices,
                   readBuf, iter, mMetrics, thr, curTask, wOk, terminated, submitted,
                   execLog, cbLog, dirty, rClean, pubClean, opsLeft,
                   devices, init, driver, hist, sensors, callbacks, taskMutex, timer, singleton, nvml, age>>

\* ------------------------------------------- startMonitoring / stopMonitoring
\* Refresh-loop threads that have been created so far.
Spawned == {m \in Monitors : pc[m] # "none"}

\* Refresh-loop threads that are running monitoringLoop.
LiveLoops == {m \in Monitors : pc[m] \notin {"none", "exited", "joined"}}

\* startMonitoring(intervalMs) begins with a call of stopMonitoring.
startMonitoring(t) ==
    /\ CanCall(t)
    /\ Cardinality(Spawned) + Cardinality({c \in Callers : op[c].kind = "start"}) < MaxSpawn
    /\ opsLeft' = opsLeft - 1
    /\ \E ms \in (IF timer.on THEN Intervals ELSE {DefaultIntervalMs}) :
        op' = [op EXCEPT ![t] = [NoOp EXCEPT !.kind = "start", !.intervalMs = ms]]
    /\ pc' = [pc EXCEPT ![t] = "stop_test"]
    /\ UNCHANGED <<migMode, migDevices, latestMetrics, monitoringActive, workerActive,
                   monitoringThread, metricsMutex, taskQueue, rIdx, newDevices, readBuf,
                   iter, mMetrics, thr, curTask, wOk, terminated, submitted, execLog,
                   cbLog, dirty, rClean, pubClean, notified, devices, init, driver, hist, sensors, callbacks, taskMutex, timer, singleton, nvml, age>>

stopMonitoring(t) ==
    /\ CanCall(t)
    /\ opsLeft' = opsLeft - 1
    /\ op' = [op EXCEPT ![t] = [NoOp EXCEPT !.kind = "stop"]]
    /\ pc' = [pc EXCEPT ![t] = "stop_test"]
    /\ UNCHANGED <<migMode, migDevices, latestMetrics, monitoringActive, workerActive,
                   monitoringThread, metricsMutex, taskQueue, rIdx, newDevices, readBuf,
                   iter, mMetrics, thr, curTask, wOk, terminated, submitted, execLog,
                   cbLog, dirty, rClean, pubClean, notified, devices, init, driver, hist, sensors, callbacks, taskMutex, timer, singleton, nvml, age>>

\* Where the caller of stopMonitoring continues when it returns.
AfterStop(kind) ==
    CASE kind = "stop"  -> "idle"
      [] kind = "start" -> "start_set"
      [] kind = "dtor"  -> "dtor_worker"

OpAfterStop(o) == IF o.kind = "stop" THEN NoOp ELSE o

\* if (monitoringActive)
StopTest(t) ==
    /\ ~terminated
    /\ t \in Callers
    /\ pc[t] = "stop_test"
    /\ IF monitoringActive
       THEN /\ pc' = [pc EXCEPT ![t] = "stop_set"]
            /\ UNCHANGED op
       ELSE /\ pc' = [pc EXCEPT ![t] = AfterStop(op[t].kind)]
            /\ op' = [op EXCEPT ![t] = OpAfterStop(@)]
    /\ UNCHANGED <<migMode, migDevices, latestMetrics, monitoringActive, workerActive,
                   monitoringThread, metricsMutex, taskQueue, rIdx, newDevices, readBuf,
                   iter, mMetrics, thr, curTask, wOk, terminated, submitted, execLog,
                   cbLog, dirty, rClean, pubClean, notified, opsLeft,
                   devices, init, driver, hist, sensors, callbacks, taskMutex, timer, singleton, nvml, age>>

\* monitoringActive = false; the store to the atomic flag takes no lock.
StopSet(t) ==
    /\ ~terminated
    /\ t \in Callers
    /\ pc[t] = "stop_set"
    /\ monitoringActive' = FALSE
    /\ pc' = [pc EXCEPT ![t] = "stop_notify"]
    /\ UNCHANGED <<migMode, migDevices, latestMetrics, workerActive,
                   monitoringThread, metricsMutex, taskQueue, op, rIdx, newDevices,
                   readBuf, iter, mMetrics, thr, curTask, wOk, terminated, submitted,
                   execLog, cbLog, dirty, rClean, pubClean, notified, opsLeft,
                   devices, init, driver, hist, sensors, callbacks, taskMutex, timer, singleton, nvml, age>>

\* monitoringCV.notify_all(): reaches the threads that are blocked now.
StopNotify(t) ==
    /\ ~terminated
    /\ t \in Callers
    /\ pc[t] = "stop_notify"
    /\ notified' = notified \cup {m \in Monitors : pc[m] = "m_sleep"}
    /\ pc' = [pc EXCEPT ![t] = "stop_join"]
    /\ UNCHANGED <<migMode, migDevices, latestMetrics, monitoringActive, workerActive,
                   monitoringThread, metricsMutex, taskQueue, op, rIdx, newDevices,
                   readBuf, iter, mMetrics, thr, curTask, wOk, terminated, submitted,
                   execLog, cbLog, dirty, rClean, pubClean, opsLeft,
                   devices, init, driver, hist, sensors, callbacks, taskMutex, timer, singleton, nvml, age>>

\* if (monitoringThread.joinable()) and the entry into join().
StopJoinable(t) ==
    /\ ~terminated
    /\ t \in Callers
    /\ pc[t] = "stop_join"
    /\ IF monitoringThread = {}
       THEN /\ pc' = [pc EXCEPT ![t] = AfterStop(op[t].kind)]
            /\ op' = [op EXCEPT ![t] = OpAfterStop(@)]
            /\ UNCHANGED thr
       ELSE /\ thr' = [thr EXCEPT ![t] = monitoringThread]
            /\ pc' = [pc EXCEPT ![t] = "stop_joining"]
            /\ UNCHANGED op
    /\ UNCHANGED <<migMode, migDevices, latestMetrics, monitoringActive, workerActive,
                   monitoringThread, metricsMutex, taskQueue, rIdx, newDevices, readBuf,
                   iter, mMetrics, curTask, wOk, terminated, submitted, execLog,
                   cbLog, dirty, rClean, pubClean, notified, opsLeft,
                   devices, init, driver, hist, sensors, callbacks, taskMutex, timer, singleton, nvml, age>>

\* join() returns once the loop thread has ended and leaves the handle not
\* joinable. Joining a thread that another caller has already joined is
\* undefined: the call either returns or the process is terminated.
StopJoin(t) ==
    /\ ~terminated
    /\ t \in Callers
    /\ pc[t] = "stop_joining"
    /\ \E m \in thr[t] :
        /\ pc[m] \in {"exited", "joined"}
        /\ \E abort \in (IF pc[m] = "joined" THEN BOOLEAN ELSE {FALSE}) :
            IF abort
            THEN /\ terminated' = TRUE
                 /\ UNCHANGED <<pc, op, thr, monitoringThread>>
            ELSE /\ pc' = [pc EXCEPT ![m] = "joined", ![t] = AfterStop(op[t].kind)]
                 /\ op' = [op EXCEPT ![t] = OpAfterStop(@)]
                 /\ thr' = [thr EXCEPT ![t] = {}]
                 /\ monitoringThread' = {}
                 /\ UNCHANGED terminated
    /\ UNCHANGED <<migMode, migDevices, latestMetrics, monitoringActive, workerActive,
                   metricsMutex, taskQueue, rIdx, newDevices, readBuf, iter, mMetrics,
                   curTask, wOk, submitted, execLog, cbLog, dirty, rClean, pubClean, notified,
                   opsLeft, devices, init, driver, hist, sensors, callbacks, taskMutex, timer, singleton, nvml, age>>

\* monitoringActive = true;
StartSet(t) ==
    /\ ~terminated
    /\ t \in Callers
    /\ pc[t] = "start_set"
    /\ monitoringActive' = TRUE
    /\ pc' = [pc EXCEPT ![t] = "start_spawn"]
    /\ UNCHANGED <<migMode, migDevices, latestMetrics, workerActive,
                   monitoringThread, metricsMutex, taskQueue, op, rIdx, newDevices,
                   readBuf, iter, mMetrics, thr, curTask, wOk, terminated, submitted,
                   execLog, cbLog, dirty, rClean, pubClean, notified, opsLeft,
                   devices, init, driver, hist, sensors, callbacks, taskMutex, timer, singleton, nvml, age>>

\* std::thread(&MIGManager::monitoringLoop, this): the new thread runs from here.
StartSpawn(t) ==
    /\ ~terminated
    /\ t \in Callers
    /\ pc[t] = "start_spawn"
    /\ \E m \in Monitors :
        /\ pc[m] = "none"
        /\ \A k \in Monitors : k < m => pc[k] # "none"
        /\ pc' = [pc EXCEPT ![m] = "m_test", ![t] = "start_assign"]
        /\ thr' = [thr EXCEPT ![t] = {m}]
        /\ timer' = IF timer.on
                     THEN [timer EXCEPT !.requested[m] = op[t].intervalMs]
                     ELSE timer
    /\ UNCHANGED <<migMode, migDevices, latestMetrics, monitoringActive, workerActive,
                   monitoringThread, metricsMutex, taskQueue, op, rIdx, newDevices,
                   readBuf, iter, mMetrics, curTask, wOk, terminated, submitted,
                   execLog, cbLog, dirty, rClean, pubClean, notified, opsLeft,
                   devices, init, driver, hist, sensors, callbacks, taskMutex, singleton, nvml, age>>

\* monitoringThread = std::thread(...): move assignment to a joinable
\* std::thread calls std::terminate.
StartAssign(t) ==
    /\ ~terminated
    /\ t \in Callers
    /\ pc[t] = "start_assign"
    /\ IF monitoringThread # {}
       THEN /\ terminated' = TRUE
            /\ UNCHANGED pc
       ELSE /\ pc' = [pc EXCEPT ![t] = "start_swap"]
            /\ UNCHANGED terminated
    /\ UNCHANGED <<migMode, migDevices, latestMetrics, monitoringActive, workerActive,
                   monitoringThread, metricsMutex, taskQueue, op, rIdx, newDevices,
                   readBuf, iter, mMetrics, thr, curTask, wOk, submitted, execLog,
                   cbLog, dirty, rClean, pubClean, notified, opsLeft,
                   devices, init, driver, hist, sensors, callbacks, taskMutex, timer, singleton, nvml, age>>

\* The move assignment takes over the new thread's handle; startMonitoring returns.
StartSwap(t) ==
    /\ ~terminated
    /\ t \in Callers
    /\ pc[t] = "start_swap"
    /\ monitoringThread' = thr[t]
    /\ thr' = [thr EXCEPT ![t] = {}]
    /\ pc' = [pc EXCEPT ![t] = "idle"]
    /\ op' = [op EXCEPT ![t] = NoOp]
    /\ UNCHANGED <<migMode, migDevices, latestMetrics, monitoringActive, workerActive,
                   metricsMutex, taskQueue, rIdx, newDevices, readBuf, iter, mMetrics,
                   curTask, wOk, terminated, submitted, execLog, cbLog, dirty,
                   rClean, pubClean, notified, opsLeft, devices, init, driver, hist, sensors, callbacks, taskMutex, timer, singleton, nvml, age>>

\* ------------------------------------------------------------- destructor
\* ~MIGManager() runs once, when no facade call is in progress; it begins with
\* stopMonitoring().
Destroy(t) ==
    /\ ~terminated
    /\ t \in Callers
    /\ \A c \in Callers : pc[c] = "idle" /\ op[c].kind # "dtor"
    /\ op' = [op EXCEPT ![t] = [NoOp EXCEPT !.kind = "dtor"]]
    /\ pc' = [pc EXCEPT ![t] = "stop_test"]
    /\ UNCHANGED <<migMode, migDevices, latestMetrics, monitoringActive, workerActive,
                   monitoringThread, metricsMutex, taskQueue, rIdx, newDevices, readBuf,
                   iter, mMetrics, thr, curTask, wOk, terminated, submitted, execLog,
                   cbLog, dirty, rClean, pubClean, notified, opsLeft,
                   devices, init, driver, hist, sensors, callbacks, taskMutex, timer, singleton, nvml, age>>

\* { lock_guard(taskMutex); workerActive = false; } taskCV.notify_one();
DtorStopWorker(t) ==
    /\ ~terminated
    /\ t \in Callers
    /\ pc[t] = (IF taskMutex.on THEN "dtor_locked" ELSE "dtor_worker")
    /\ workerActive' = FALSE
    /\ taskMutex' = Released(taskMutex, t)
    /\ pc' = [pc EXCEPT ![t] = "dtor_join"]
    /\ UNCHANGED <<migMode, migDevices, latestMetrics, monitoringActive,
                   monitoringThread, metricsMutex, taskQueue, op, rIdx, newDevices,
                   readBuf, iter, mMetrics, thr, curTask, wOk, terminated, submitted,
                   execLog, cbLog, dirty, rClean, pubClean, notified, opsLeft,
                   devices, init, driver, hist, sensors, callbacks, timer, singleton, nvml, age>>

\* std::lock_guard on taskMutex in the destructor and in the push block of
\* enableMIGMode / disableMIGMode.
TaskLock(t) ==
    /\ ~terminated
    /\ t \in Callers
    /\ taskMutex.on
    /\ pc[t] \in {"dtor_worker", "enq_lock"}
    /\ taskMutex.holder = {}
    /\ taskMutex' = Locked(taskMutex, t)
    /\ pc' = [pc EXCEPT ![t] = IF pc[t] = "dtor_worker" THEN "dtor_locked" ELSE "enq_push"]
    /\ UNCHANGED <<migMode, migDevices, latestMetrics, monitoringActive, workerActive,
                   monitoringThread, metricsMutex, taskQueue, op, rIdx, newDevices,
                   readBuf, iter, mMetrics, thr, curTask, wOk, terminated, submitted,
                   execLog, cbLog, dirty, rClean, pubClean, notified, opsLeft,
                   devices, init, driver, hist, sensors, callbacks, timer, singleton, nvml, age>>

\* taskQueue.push({task, callback}) with the lock held; the lock_guard ends,
\* taskCV.notify_one(), return true.
EnqueuePush(t) ==
    /\ ~terminated
    /\ t \in Callers
    /\ pc[t] = "enq_push"
    /\ taskQueue' = Append(taskQueue,
            [NoTask EXCEPT !.id = Len(submitted) + 1, !.enable = (op[t].kind = "enable"),
                            !.dev = op[t].dev, !.cb = op[t].cb])
    /\ submitted' = Append(submitted, op[t].cb)
    /\ op' = [op EXCEPT ![t].ret = "true"]
    /\ taskMutex' = Released(taskMutex, t)
    /\ pc' = [pc EXCEPT ![t] = "c_ret"]
    /\ UNCHANGED <<migMode, migDevices, latestMetrics, monitoringActive, workerActive,
                   monitoringThread, metricsMutex, rIdx, newDevices, readBuf, iter,
                   mMetrics, thr, curTask, wOk, terminated, execLog, cbLog,
                   dirty, rClean, pubClean, notified, opsLeft,
                   devices, init, driver, hist, sensors, callbacks, timer, singleton, nvml, age>>

\* join() returns once the thread's function has returned.
JoinReturns(th) == pc[th] = "exited"

\* workerThread.join() returns once workerLoop has returned.
DtorJoin(t) ==
    /\ ~terminated
    /\ t \in Callers
    /\ pc[t] = "dtor_join"
    /\ JoinReturns(Worker)
    /\ pc' = [pc EXCEPT ![Worker] = "joined", ![t] = "dtor_members"]
    /\ UNCHANGED <<migMode, migDevices, latestMetrics, monitoringActive, workerActive,
                   monitoringThread, metricsMutex, taskQueue, op, rIdx, newDevices,
                   readBuf, iter, mMetrics, thr, curTask, wOk, terminated, submitted,
                   execLog, cbLog, dirty, rClean, pubClean, notified, opsLeft,
                   devices, init, driver, hist, sensors, callbacks, taskMutex, timer, singleton, nvml, age>>

\* The members are destroyed: the tasks still in taskQueue go with the queue,
\* and a monitoringThread that is still joinable calls std::terminate.
DtorMembers(t) ==
    /\ ~terminated
    /\ t \in Callers
    /\ pc[t] = "dtor_members"
    /\ IF monitoringThread # {}
       THEN /\ terminated' = TRUE
            /\ UNCHANGED pc
       ELSE /\ pc' = [pc EXCEPT ![t] = "destroyed"]
            /\ UNCHANGED terminated
    /\ taskQueue' = <<>>
    /\ UNCHANGED <<migMode, migDevices, latestMetrics, monitoringActive, workerActive,
                   monitoringThread, metricsMutex, op, rIdx, newDevices,
                   readBuf, iter, mMetrics, thr, curTask, wOk, submitted, execLog,
                   cbLog, dirty, rClean, pubClean, notified, opsLeft,
                   devices, init, driver, hist, sensors, callbacks, taskMutex, timer, singleton, nvml, age>>

\* ------------------------------------------------------------ NVMLManager
\* initialize(): nvmlInit; a failure returns false.
NvmlInitialize ==
    /\ nvml.at = "idle"
    /\ nvml.calls < MaxNvmlCalls
    /\ \E ok \in BOOLEAN :
        nvml' = [nvml EXCEPT !.calls = @ + 1,
                             !.call = "initialize",
                             !.reinit = @ \/ nvml.initialized,
                             !.driverCalls = @ + 1,
                             !.inits = IF ok THEN @ + 1 ELSE @,
                             !.ret = IF ok THEN "none" ELSE "false",
                             !.at = IF ok THEN "init_devices" ELSE "idle"]
    /\ UNCHANGED <<migMode, migDevices, latestMetrics, monitoringActive, workerActive,
                   monitoringThread, metricsMutex, taskQueue, pc, op, rIdx, newDevices,
                   readBuf, iter, mMetrics, thr, curTask, wOk, terminated, submitted,
                   execLog, cbLog, dirty, rClean, pubClean, notified, opsLeft, devices,
                   init, driver, hist, sensors, callbacks, taskMutex, timer, singleton, age>>

\* initializeDevices(): false when nvmlDeviceGetCount fails or no handle is
\* obtained; initialize then calls nvmlShutdown and returns false.
NvmlInitializeDevices ==
    /\ nvml.at = "init_devices"
    /\ \E ok \in BOOLEAN :
        nvml' = IF ok
                THEN [nvml EXCEPT !.driverCalls = @ + 1, !.at = "init_events"]
                ELSE [nvml EXCEPT !.driverCalls = @ + 2, !.shutdowns = @ + 1,
                                  !.ret = "false", !.at = "idle"]
    /\ UNCHANGED <<migMode, migDevices, latestMetrics, monitoringActive, workerActive,
                   monitoringThread, metricsMutex, taskQueue, pc, op, rIdx, newDevices,
                   readBuf, iter, mMetrics, thr, curTask, wOk, terminated, submitted,
                   execLog, cbLog, dirty, rClean, pubClean, notified, opsLeft, devices,
                   init, driver, hist, sensors, callbacks, taskMutex, timer, singleton, age>>

\* initializeUnits() and initializeEvents(): a failure is only a warning;
\* nvmlEventSetCreate stores the event set on success. Then
\* initialized = true; return true.
NvmlInitializeEvents ==
    /\ nvml.at = "init_events"
    /\ \E ok \in BOOLEAN :
        nvml' = [nvml EXCEPT !.driverCalls = @ + 2,
                             !.eventSet = IF ok THEN TRUE ELSE @,
                             !.initialized = TRUE,
                             !.ret = "true",
                             !.at = "idle"]
    /\ UNCHANGED <<migMode, migDevices, latestMetrics, monitoringActive, workerActive,
                   monitoringThread, metricsMutex, taskQueue, pc, op, rIdx, newDevices,
                   readBuf, iter, mMetrics, thr, curTask, wOk, terminated, submitted,
                   execLog, cbLog, dirty, rClean, pubClean, notified, opsLeft, devices,
                   init, driver, hist, sensors, callbacks, taskMutex, timer, singleton, age>>

\* The body of shutdown(): nothing when not initialized; otherwise
\* stopMonitoring (no loop runs: it returns at once), nvmlEventSetFree when
\* an event set exists, nvmlShutdown, initialized = false.
Shutdown(n) ==
    IF ~n.initialized
    THEN n
    ELSE [n EXCEPT !.driverCalls = @ + (IF n.eventSet THEN 2 ELSE 1),
                   !.eventSet = FALSE,
                   !.shutdowns = @ + 1,
                   !.initialized = FALSE]

\* if (!running) return; running = false; eventCV.notify_all(); and on to the
\* joins.
StopMonitoring(n) ==
    IF ~n.running THEN n ELSE [n EXCEPT !.running = FALSE, !.at = "join_monitor"]

\* shutdown(); with the loops running its stopMonitoring() first waits in the
\* joins.
NvmlShutdown ==
    /\ nvml.at = "idle"
    /\ nvml.calls < MaxNvmlCalls
    /\ nvml' = IF nvml.initialized /\ nvml.running
               THEN [StopMonitoring(nvml) EXCEPT !.calls = @ + 1, !.call = "shutdown",
                                                 !.ret = "none"]
               ELSE [Shutdown(nvml) EXCEPT !.calls = @ + 1, !.call = "shutdown",
                                           !.ret = "none"]
    /\ UNCHANGED <<migMode, migDevices, latestMetrics, monitoringActive, workerActive,
                   monitoringThread, metricsMutex, taskQueue, pc, op, rIdx, newDevices,
                   readBuf, iter, mMetrics, thr, curTask, wOk, terminated, submitted,
                   execLog, cbLog, dirty, rClean, pubClean, notified, opsLeft, devices,
                   init, driver, hist, sensors, callbacks, taskMutex, timer, singleton, age>>

\* ~NVMLManager() { shutdown(); }
NvmlDestructor ==
    /\ nvml.at = "idle"
    /\ nvml' = IF nvml.initialized /\ nvml.running
               THEN [StopMonitoring(nvml) EXCEPT !.call = "destructor", !.ret = "none"]
               ELSE [Shutdown(nvml) EXCEPT !.call = "destructor", !.ret = "none",
                                           !.at = "destroyed"]
    /\ UNCHANGED <<migMode, migDevices, latestMetrics, monitoringActive, workerActive,
                   monitoringThread, metricsMutex, taskQueue, pc, op, rIdx, newDevices,
                   readBuf, iter, mMetrics, thr, curTask, wOk, terminated, submitted,
                   execLog, cbLog, dirty, rClean, pubClean, notified, opsLeft, devices,
                   init, driver, hist, sensors, callbacks, taskMutex, timer, singleton, age>>

\* A new std::thread running the given loop.
NewThread(role) == [role |-> role, st |-> "running"]

\* if (enableEventMonitoring && eventSet); enableEventMonitoring is true and
\* never assigned.
WithEventThread(n) == n.eventSet

\* A guard that lets every startMonitoring through.
NeverRunning(n) == FALSE

\* if (running || !initialized) return;
StartIgnored(n) == n.running \/ ~n.initialized

\* startMonitoring(): nothing when running or not initialized; otherwise
\* running = true, the monitor thread and, with an event set, the event thread
\* are created and move-assigned to the members. Move assignment to a member
\* that still holds a thread calls std::terminate.
NvmlStartMonitoring ==
    /\ nvml.at = "idle"
    /\ nvml.calls < MaxNvmlCalls
    /\ nvml' =
         LET n == [nvml EXCEPT !.calls = @ + 1, !.call = "start", !.ret = "none"]
             k == Len(nvml.threads)
         IN IF StartIgnored(nvml) THEN n
            ELSE IF nvml.monitorThread # 0 \/ (WithEventThread(nvml) /\ nvml.eventThread # 0)
            THEN [n EXCEPT !.running = TRUE, !.at = "terminated"]
            ELSE IF WithEventThread(nvml)
            THEN [n EXCEPT !.running = TRUE, !.monitorThread = k + 1, !.eventThread = k + 2,
                           !.threads = @ \o <<NewThread("monitor"), NewThread("event")>>]
            ELSE [n EXCEPT !.running = TRUE, !.monitorThread = k + 1,
                           !.threads = Append(@, NewThread("monitor"))]
    /\ UNCHANGED <<migMode, migDevices, latestMetrics, monitoringActive, workerActive,
                   monitoringThread, metricsMutex, taskQueue, pc, op, rIdx, newDevices,
                   readBuf, iter, mMetrics, thr, curTask, wOk, terminated, submitted,
                   execLog, cbLog, dirty, rClean, pubClean, notified, opsLeft, devices,
                   init, driver, hist, sensors, callbacks, taskMutex, timer, singleton, age>>

\* stopMonitoring()
NvmlStopMonitoring ==
    /\ nvml.at = "idle"
    /\ nvml.calls < MaxNvmlCalls
    /\ nvml' = [StopMonitoring(nvml) EXCEPT !.calls = @ + 1, !.call = "stop", !.ret = "none"]
    /\ UNCHANGED <<migMode, migDevices, latestMetrics, monitoringActive, workerActive,
                   monitoringThread, metricsMutex, taskQueue, pc, op, rIdx, newDevices,
                   readBuf, iter, mMetrics, thr, curTask, wOk, terminated, submitted,
                   execLog, cbLog, dirty, rClean, pubClean, notified, opsLeft, devices,
                   init, driver, hist, sensors, callbacks, taskMutex, timer, singleton, age>>

\* join() returns once the thread's loop has returned.
NvmlJoinReturns(th) == th.st = "exited"

\* A thread after a join on it has returned.
Joined(th) == IF th.st = "exited" THEN [th EXCEPT !.st = "joined"] ELSE th

\* Where the caller goes on when stopMonitoring returns: back to the caller of
\* stopMonitoring, or on with the rest of shutdown().
AfterStopMonitoring(n) ==
    CASE n.call = "stop" -> [n EXCEPT !.at = "idle"]
      [] n.call = "shutdown" -> [Shutdown(n) EXCEPT !.at = "idle"]
      [] n.call = "destructor" -> [Shutdown(n) EXCEPT !.at = "destroyed"]

\* if (monitorThread.joinable()) monitorThread.join();
NvmlJoinMonitor ==
    /\ nvml.at = "join_monitor"
    /\ nvml.monitorThread # 0 => NvmlJoinReturns(nvml.threads[nvml.monitorThread])
    /\ nvml' = IF nvml.monitorThread = 0
               THEN [nvml EXCEPT !.at = "join_event"]
               ELSE [nvml EXCEPT !.at = "join_event", !.monitorThread = 0,
                                 !.threads[nvml.monitorThread] = Joined(@)]
    /\ UNCHANGED <<migMode, migDevices, latestMetrics, monitoringActive, workerActive,
                   monitoringThread, metricsMutex, taskQueue, pc, op, rIdx, newDevices,
                   readBuf, iter, mMetrics, thr, curTask, wOk, terminated, submitted,
                   execLog, cbLog, dirty, rClean, pubClean, notified, opsLeft, devices,
                   init, driver, hist, sensors, callbacks, taskMutex, timer, singleton, age>>

\* if (eventThread.joinable()) eventThread.join(); stopMonitoring returns.
NvmlJoinEvent ==
    /\ nvml.at = "join_event"
    /\ nvml.eventThread # 0 => NvmlJoinReturns(nvml.threads[nvml.eventThread])
    /\ nvml' = IF nvml.eventThread = 0
               THEN AfterStopMonitoring(nvml)
               ELSE AfterStopMonitoring([nvml EXCEPT !.eventThread = 0,
                                            !.threads[nvml.eventThread] = Joined(@)])
    /\ UNCHANGED <<migMode, migDevices, latestMetrics, monitoringActive, workerActive,
                   monitoringThread, metricsMutex, taskQueue, pc, op, rIdx, newDevices,
                   readBuf, iter, mMetrics, thr, curTask, wOk, terminated, submitted,
                   execLog, cbLog, dirty, rClean, pubClean, notified, opsLeft, devices,
                   init, driver, hist, sensors, callbacks, taskMutex, timer, singleton, age>>

\* while (running) of monitoringLoop and eventLoop: the loop returns once it
\* reads the flag cleared (after its sleep or its nvmlEventSetWait timeout).
NvmlLoopExit ==
    /\ nvml.at # "terminated"
    /\ ~nvml.running
    /\ \E i \in DOMAIN nvml.threads :
        /\ nvml.threads[i].st = "running"
        /\ nvml' = [nvml EXCEPT !.threads[i].st = "exited"]
    /\ UNCHANGED <<migMode, migDevices, latestMetrics, monitoringActive, workerActive,
                   monitoringThread, metricsMutex, taskQueue, pc, op, rIdx, newDevices,
                   readBuf, iter, mMetrics, thr, curTask, wOk, terminated, submitted,
                   execLog, cbLog, dirty, rClean, pubClean, notified, opsLeft, devices,
                   init, driver, hist, sensors, callbacks, taskMutex, timer, singleton, age>>

\* ------------------------------------------------------------ specification
CommandCalls(t) ==
    \/ enableMIGMode(t) \/ disableMIGMode(t) \/ SyncSetMigMode(t) \/ SyncReturn(t)
    \/ CallReturn(t)

\* The steps of the critical sections on taskMutex when they are taken apart.
TaskLockSteps == WorkerLock \/ WorkerBlock \/ \E t \in Callers : TaskLock(t) \/ EnqueuePush(t)

ReaderCalls(t) ==
    \/ getAllMIGDevices(t) \/ getMIGDevices(t) \/ ReadLock(t) \/ ReadIterate(t)
    \/ findMIGDeviceByUUID(t) \/ FindReturn(t) \/ getDeviceCount(t)

MetricsCalls(t) ==
    \/ getMIGDeviceMetrics(t) \/ getAllMIGMetrics(t) \/ CollectReturn(t)
    \/ MetricsReturn(t)

MonitoringCalls(t) ==
    \/ startMonitoring(t) \/ stopMonitoring(t)
    \/ StopTest(t) \/ StopSet(t) \/ StopNotify(t) \/ StopJoinable(t) \/ StopJoin(t)
    \/ StartSet(t) \/ StartSpawn(t) \/ StartAssign(t) \/ StartSwap(t)

Destructor(t) ==
    \/ Destroy(t) \/ DtorStopWorker(t) \/ DtorJoin(t) \/ DtorMembers(t)

WorkerStep == WorkerTest \/ WorkerWait \/ WorkerTask \/ WorkerCallback

MonitorStep(m) ==
    \/ MonitorTest(m) \/ MonitorLock(m) \/ MonitorCollect(m)
    \/ MonitorPublish(m) \/ MonitorWait(m) \/ MonitorBlock(m) \/ MonitorWake(m)

Refresh(t) == RefreshDevice(t) \/ RefreshSwap(t)

\* The whole manager: every facade call from every caller.
Next ==
    \/ \E t \in Callers : CommandCalls(t)
    \/ \E t \in Callers : ReaderCalls(t)
    \/ \E t \in Callers : isMIGModeEnabledCall(t)
    \/ \E t \in Callers : MetricsCalls(t)
    \/ \E t \in Callers : MonitoringCalls(t)
    \/ \E t \in Callers : Destructor(t)
    \/ WorkerStep
    \/ \E m \in Monitors : MonitorStep(m)
    \/ \E t \in Threads : Refresh(t)

Spec == Init /\ [][Next]_vars

\* Asynchronous commands only: producers, the worker and the destructor.
AsyncCommand(t) ==
    \E enable \in BOOLEAN, d \in 0..NumDevices, cb \in BOOLEAN :
        SetMIGModeCall(t, enable, d, TRUE, cb)

NextQueue ==
    \/ \E t \in Callers : AsyncCommand(t) \/ CallReturn(t)
    \/ \E t \in Callers : StopTest(t) \/ Destructor(t)
    \/ WorkerStep
    \/ Refresh(Worker)

SpecQueue == InitWith(MaxCalls, FALSE) /\ [][NextQueue]_vars

\* Commands in both forms, synchronous callers next to the worker, and the
\* destructor.
NextRace ==
    \/ \E t \in Callers : CommandCalls(t)
    \/ \E t \in Callers : StopTest(t) \/ Destructor(t)
    \/ WorkerStep
    \/ \E t \in Callers \cup {Worker} : Refresh(t)

SpecRace == InitWith(MaxOps, FALSE) /\ [][NextRace]_vars

\* Registry and metrics reads next to a running refresh loop.
NextRead ==
    \/ \E t \in Callers : ReaderCalls(t)
    \/ \E t \in Callers : MetricsCalls(t)
    \/ \E m \in Monitors : MonitorStep(m)
    \/ \E t \in Callers \cup Monitors : Refresh(t)

SpecRead == InitWith(MaxCalls, TRUE) /\ [][NextRead]_vars

\* startMonitoring / stopMonitoring from every caller, then the destructor.
NextLifecycle ==
    \/ \E t \in Callers : MonitoringCalls(t)
    \/ \E t \in Callers : Destructor(t)
    \/ WorkerTest \/ WorkerWait
    \/ \E m \in Monitors : MonitorStep(m)
    \/ \E m \in Monitors : Refresh(m)

SpecLifecycle == InitWith(MaxOps, FALSE) /\ [][NextLifecycle]_vars

\* A synchronous command without callback on a device of the inventory.
SyncCommand(t) ==
    \E enable \in BOOLEAN, d \in Devices : SetMIGModeCall(t, enable, d, FALSE, FALSE)

\* One client thread issuing synchronous commands, per-device listings and
\* mode queries one after the other on devices that start unpartitioned, the
\* calls that return being recorded; the refresh loop is running or not.
InitLaw ==
    /\ \E monitoring \in BOOLEAN : InitCore(MaxCalls, monitoring)
    /\ migMode = [d \in Devices |-> FALSE]
    /\ hist = [NoHist EXCEPT !.on = TRUE]

NextLaw ==
    \/ \E t \in {1} : SyncCommand(t) \/ SyncSetMigMode(t) \/ SyncReturn(t) \/ CallReturn(t)
    \/ \E t \in {1} : getMIGDevices(t) \/ ReadLock(t) \/ ReadIterate(t)
    \/ \E t \in {1} : isMIGModeEnabledCall(t)
    \/ \E m \in Monitors : MonitorStep(m)
    \/ \E t \in {1} \cup Monitors : Refresh(t)

SpecLaw == InitLaw /\ [][NextLaw]_vars

\* Construction alone: getInstance() up to the return of the constructor.
NextInit ==
    \E t \in Callers :
        \/ CtorGuard(t) \/ CtorGetCount(t) \/ CtorGetHandle(t) \/ CtorHandlesDone(t)
        \/ Refresh(t) \/ CtorStartWorker(t)

SpecInit == InitCtor /\ [][NextInit]_vars

\* The inventories a construction can leave that hold a handle: the driver
\* indices of any non-empty set of devices, in increasing order.
RECURSIVE InOrder(_, _)
InOrder(S, n) ==
    IF n <= 0 THEN <<>>
    ELSE IF (n - 1) \in S THEN Append(InOrder(S, n - 1), n - 1)
    ELSE InOrder(S, n - 1)

Inventories == {InOrder(S, NumDevices) : S \in (SUBSET Devices) \ {{}}}

Inventoried == {devices[k] : k \in DOMAIN devices}

\* A constructed manager whose worker is idle, on a driver that now answers
\* the enumeration queries of each inventoried device in one fixed way, any
\* of DeviceAnswers; partitioning is enabled everywhere and the registry is
\* the one the construction's refresh published when the driver was healthy.
InitEnumCore ==
    /\ InitBase(MaxOps, FALSE)
    /\ singleton = Handed
    /\ devices \in Inventories
    /\ init = [Constructed EXCEPT !.handleOk = [d \in Devices |-> d \in Inventoried]]
    /\ driver \in {f \in [Devices -> {{q} : q \in DeviceAnswers}] :
                      \A d \in Devices \ Inventoried : f[d] = {DeviceOk}}
    /\ migMode = [d \in Devices |-> TRUE]
    /\ migDevices = DriverLayout(migMode)
    /\ workerActive = TRUE
    /\ pc = StartedPc(FALSE)

InitEnum == InitEnumCore /\ hist = NoHist

\* Registry reads and lookups by one caller.
NextEnum ==
    \E t \in {1} :
        \/ getAllMIGDevices(t) \/ Refresh(t) \/ ReadLock(t) \/ ReadIterate(t)
        \/ findMIGDeviceByUUID(t) \/ FindReturn(t)

SpecEnum == InitEnum /\ [][NextEnum]_vars

\* Listings by one caller on a driver whose state does not change, the calls
\* that return being recorded.
InitIdem == InitEnumCore /\ hist = [NoHist EXCEPT !.on = TRUE]

NextIdem ==
    \E t \in {1} : getAllMIGDevices(t) \/ Refresh(t) \/ ReadLock(t) \/ ReadIterate(t)

SpecIdem == InitIdem /\ [][NextIdem]_vars

\* The answers of a healthy driver for one device: every query succeeds, the
\* device has up to MaxInstances GPU instances, each with 0..MaxCI compute
\* instances.
HealthyAnswers ==
    {DeviceAnswer(TRUE, TRUE, s) :
       s \in UNION {[1..n -> {[InstanceOk(1) EXCEPT !.ciCount = c] : c \in 0..MaxCI}] :
                      n \in 0..MaxInstances}}

\* A constructed manager with the refresh loop running, on a healthy driver
\* whose partition layout is fixed; partitioning is enabled on any set of
\* devices.
InitList ==
    /\ InitBase(MaxOps, TRUE)
    /\ singleton = Handed
    /\ hist = NoHist
    /\ devices \in Inventories
    /\ init = [Constructed EXCEPT !.handleOk = [d \in Devices |-> d \in Inventoried]]
    /\ driver \in {f \in [Devices -> {{q} : q \in HealthyAnswers}] :
                      \A d \in Devices \ Inventoried : f[d] = {DeviceOk}}
    /\ migMode \in [Devices -> BOOLEAN]
    /\ migDevices = DriverLayout(migMode)
    /\ workerActive = TRUE
    /\ pc = StartedPc(TRUE)

\* Full listings by one caller next to the refresh loop.
NextList ==
    \/ \E t \in {1} : getAllMIGDevices(t) \/ ReadLock(t) \/ ReadIterate(t)
    \/ \E m \in Monitors : MonitorStep(m)
    \/ \E t \in {1} \cup Monitors : Refresh(t)

SpecList == InitList /\ [][NextList]_vars

\* A constructed manager, refresh loop not started so that the cache is empty,
\* on a driver that answers the telemetry queries in one fixed way, any
\* combination of successes and failures.
InitCollect ==
    /\ InitCalls(MaxOps, FALSE)
    /\ sensors \in {{a} : a \in SensorAnswers}
    /\ callbacks = {Returns}
    /\ taskMutex = NoTaskLock
    /\ timer = NoTimer
    /\ age = NoAge
    /\ singleton = Handed
    /\ hist = NoHist
    /\ devices = [i \in 1..NumDevices |-> i - 1]
    /\ init = Constructed
    /\ driver = SimpleDriver
    /\ migMode \in [Devices -> BOOLEAN]
    /\ migDevices = DriverLayout(migMode)
    /\ workerActive = TRUE
    /\ pc = StartedPc(FALSE)

\* Metrics reads, each collecting on demand.
NextCollect == \E t \in Callers : MetricsCalls(t)

SpecCollect == InitCollect /\ [][NextCollect]_vars

\* A constructed manager with one partition, whose callers pass any interval
\* to startMonitoring, with the intervals recorded.
InitTimer ==
    /\ InitCalls(MaxOps, FALSE)
    /\ sensors = {SensorsOk}
    /\ callbacks = {Returns}
    /\ taskMutex = NoTaskLock
    /\ timer = [NoTimer EXCEPT !.on = TRUE]
    /\ age = NoAge
    /\ singleton = Handed
    /\ hist = NoHist
    /\ devices = [i \in 1..NumDevices |-> i - 1]
    /\ init = Constructed
    /\ driver = SimpleDriver
    /\ migMode = [d \in Devices |-> d = 0]
    /\ migDevices = DriverLayout(migMode)
    /\ workerActive = TRUE
    /\ pc = StartedPc(FALSE)

\* startMonitoring / stopMonitoring from every caller and the refresh loops.
NextTimer ==
    \/ \E t \in Callers : MonitoringCalls(t)
    \/ \E m \in Monitors : MonitorStep(m)
    \/ \E m \in Monitors : Refresh(m)

SpecTimer == InitTimer /\ [][NextTimer]_vars

\* No manager yet: every caller is about to make its first call of
\* getInstance, and a caller whose call threw may call again.
InitInstance ==
    /\ InitBase(MaxCalls, FALSE)
    /\ singleton = NotHanded
    /\ hist = NoHist
    /\ devices = <<>>
    /\ init = [nvmlOk |-> FALSE, count |-> -1, handleOk |-> [d \in Devices |-> FALSE],
               i |-> 0]
    /\ driver = SimpleDriver
    /\ migMode \in [Devices -> BOOLEAN]
    /\ migDevices = EmptyMap
    /\ workerActive = FALSE
    /\ pc = [t \in Threads |-> IF t \in Callers THEN "start" ELSE "none"]

\* getInstance from every caller, with the construction it runs.
NextInstance ==
    \E t \in Callers :
        \/ getInstance(t) \/ GetInstanceReturn(t) \/ GetInstanceThrows(t)
        \/ CtorGuard(t) \/ CtorGetCount(t) \/ CtorGetHandle(t) \/ CtorHandlesDone(t)
        \/ Refresh(t) \/ CtorStartWorker(t)

SpecInstance == InitInstance /\ [][NextInstance]_vars

\* One NVMLManager: initialize() and shutdown() in any order, then the
\* destructor.
NextNvml ==
    \/ NvmlInitialize \/ NvmlInitializeDevices \/ NvmlInitializeEvents
    \/ NvmlShutdown \/ NvmlDestructor

SpecNvml == InitWith(0, FALSE) /\ [][NextNvml]_vars

\* One NVMLManager whose caller starts and stops monitoring in any order
\* between initialize() and shutdown(), and does not call initialize() while
\* the loops run.
NextNvmlMonitoring ==
    \/ ~nvml.running /\ (NvmlInitialize \/ NvmlInitializeDevices \/ NvmlInitializeEvents)
    \/ NvmlStartMonitoring \/ NvmlStopMonitoring
    \/ NvmlJoinMonitor \/ NvmlJoinEvent \/ NvmlLoopExit
    \/ NvmlShutdown \/ NvmlDestructor

SpecNvmlMonitoring == InitWith(0, FALSE) /\ [][NextNvmlMonitoring]_vars

\* A constructed manager with any inventory the construction can leave, its
\* returned calls recorded.
InitFrame ==
    /\ InitBase(MaxOps, FALSE)
    /\ singleton = Handed
    /\ devices \in Inventories
    /\ init = [Constructed EXCEPT !.handleOk = [d \in Devices |-> d \in Inventoried]]
    /\ driver = SimpleDriver
    /\ migMode \in [Devices -> BOOLEAN]
    /\ migDevices = DriverLayout(migMode)
    /\ workerActive = TRUE
    /\ pc = StartedPc(FALSE)
    /\ hist = [NoHist EXCEPT !.on = TRUE]

\* Every facade operation from one caller, with the worker and the refresh
\* loops; the manager is not destroyed.
NextFrame ==
    \/ \E t \in {1} : CommandCalls(t) \/ ReaderCalls(t) \/ isMIGModeEnabledCall(t)
    \/ \E t \in {1} : MetricsCalls(t) \/ MonitoringCalls(t)
    \/ WorkerStep
    \/ \E m \in Monitors : MonitorStep(m)
    \/ \E t \in Threads : Refresh(t)

SpecFrame == InitFrame /\ [][NextFrame]_vars

\* A constructed manager on a driver whose queries succeed, with the ages of
\* the refresh passes recorded.
InitOverlap ==
    /\ InitCalls(MaxOps, FALSE)
    /\ sensors = {SensorsOk}
    /\ callbacks = {Returns}
    /\ taskMutex = NoTaskLock
    /\ timer = NoTimer
    /\ age = [NoAge EXCEPT !.on = TRUE]
    /\ singleton = Handed
    /\ hist = NoHist
    /\ devices = [i \in 1..NumDevices |-> i - 1]
    /\ init = Constructed
    /\ driver = [d \in Devices |-> {DeviceOk}]
    /\ migMode \in [Devices -> BOOLEAN]
    /\ migDevices = DriverLayout(migMode)
    /\ workerActive = TRUE
    /\ pc = StartedPc(FALSE)

\* Commands and listings from every caller, startMonitoring, the worker and
\* the refresh loop: every thread that runs refreshMIGDevices.
NextOverlap ==
    \/ \E t \in Callers : CommandCalls(t)
    \/ \E t \in Callers : getMIGDevices(t) \/ ReadLock(t) \/ ReadIterate(t)
    \/ \E t \in {1} : MonitoringCalls(t)
    \/ WorkerStep
    \/ \E m \in Monitors : MonitorStep(m)
    \/ \E t \in Threads : Refresh(t)

SpecOverlap == InitOverlap /\ [][NextOverlap]_vars

\* A constructed manager whose callers pass completion callbacks that may
\* raise when they are invoked with success=true.
InitCallback ==
    /\ InitCalls(MaxOps, FALSE)
    /\ sensors = {SensorsOk}
    /\ callbacks = {Returns, Raises}
    /\ taskMutex = NoTaskLock
    /\ timer = NoTimer
    /\ age = NoAge
    /\ singleton = Handed
    /\ hist = NoHist
    /\ devices = [i \in 1..NumDevices |-> i - 1]
    /\ init = Constructed
    /\ driver = SimpleDriver
    /\ migMode \in [Devices -> BOOLEAN]
    /\ migDevices = DriverLayout(migMode)
    /\ workerActive = TRUE
    /\ pc = StartedPc(FALSE)

\* Synchronous and asynchronous commands from every caller, and the worker.
NextCallback ==
    \/ \E t \in Callers : CommandCalls(t)
    \/ WorkerStep
    \/ \E t \in Callers \cup {Worker} : Refresh(t)

SpecCallback == InitCallback /\ [][NextCallback]_vars

\* A constructed manager whose critical sections on taskMutex are taken apart
\* into the lock, the body and the release.
InitLocks ==
    /\ InitCalls(MaxOps, FALSE)
    /\ sensors = {SensorsOk}
    /\ callbacks = {Returns}
    /\ taskMutex = [NoTaskLock EXCEPT !.on = TRUE]
    /\ timer = NoTimer
    /\ age = NoAge
    /\ singleton = Handed
    /\ hist = NoHist
    /\ devices = [i \in 1..NumDevices |-> i - 1]
    /\ init = Constructed
    /\ driver = [d \in Devices |-> {DeviceOk}]
    /\ migMode = [d \in Devices |-> d = 0]
    /\ migDevices = DriverLayout(migMode)
    /\ workerActive = TRUE
    /\ pc = StartedPc(FALSE)

\* Every thread that takes a lock or joins: commands, listings and metrics
\* from the callers, startMonitoring / stopMonitoring, the destructor, the
\* worker and the refresh loop.
NextLocks ==
    \/ \E t \in Callers : CommandCalls(t)
    \/ TaskLockSteps
    \/ \E t \in Callers : getMIGDevices(t) \/ ReadLock(t) \/ ReadIterate(t)
    \/ \E t \in Callers : MetricsCalls(t)
    \/ \E t \in Callers : MonitoringCalls(t)
    \/ \E t \in Callers : Destructor(t)
    \/ WorkerStep
    \/ \E m \in Monitors : MonitorStep(m)
    \/ \E t \in Threads : Refresh(t)

SpecLocks == InitLocks /\ [][NextLocks]_vars

\* The life of the manager: construction through getInstance, asynchronous
\* commands and startMonitoring / stopMonitoring, then the destructor.
NextWhole ==
    \/ NextInstance
    \/ \E t \in Callers : \E d \in Devices, e \in BOOLEAN : SetMIGModeCall(t, e, d, TRUE, FALSE)
    \/ \E t \in Callers : CallReturn(t)
    \/ \E t \in Callers : MonitoringCalls(t)
    \/ \E t \in Callers : Destructor(t)
    \/ WorkerStep
    \/ \E m \in Monitors : MonitorStep(m)
    \/ \E t \in Monitors \cup {Worker} : Refresh(t)

\* No manager yet, and room for two facade calls after both callers have
\* obtained the instance.
InitWhole ==
    /\ InitBase(NumCallers + MaxOps, FALSE)
    /\ singleton = NotHanded
    /\ hist = NoHist
    /\ devices = <<>>
    /\ init = [nvmlOk |-> FALSE, count |-> -1, handleOk |-> [d \in Devices |-> FALSE],
               i |-> 0]
    /\ driver = SimpleDriver
    /\ migMode = [d \in Devices |-> FALSE]
    /\ migDevices = EmptyMap
    /\ workerActive = FALSE
    /\ pc = [t \in Threads |-> IF t \in Callers THEN "start" ELSE "none"]

SpecWhole == InitWhole /\ [][NextWhole]_vars

\* ------------------------------------------------------------------ claims
\* Ids of the commands whose completion callback has been invoked, with repeats.
CallbackCount(j) == Cardinality({i \in DOMAIN cbLog : cbLog[i].id = j})

Executed == {execLog[i] : i \in DOMAIN execLog}

Destroyed == \E t \in Callers : pc[t] = "destroyed"

\* A thread is inside a Driver Interface call.
InDriverCall(t) ==
    \/ pc[t] \in RefreshPCs /\ rIdx[t] < Len(devices)
    \/ pc[t] \in {"s_setmig", "w_setmig", "m_collect", "gm_collect", "am_collect"}

\* A thread is inside nvmlDeviceSetMigMode, and the device it is changing.
InSetMigMode(t) == pc[t] \in {"s_setmig", "w_setmig"}
TargetDevice(t) == IF t = Worker THEN curTask.dev ELSE op[t].dev

\* C1: asynchronous commands begin execution in the order they were
\* enqueued, their callbacks are invoked in that order, and when a command
\* begins every earlier command has finished and has had its callback.
C1_FifoOrder ==
    /\ \A i \in DOMAIN execLog : execLog[i] = i
    /\ \A i, k \in DOMAIN cbLog : i < k => cbLog[i].id < cbLog[k].id
    /\ \A j \in 1..Len(submitted) :
          (\E k \in Executed : j < k) => (j # curTask.id /\ (submitted[j] => CallbackCount(j) >= 1))

\* Three commands have run to their callbacks.
C1_Witness ==
    /\ Len(execLog) >= 3
    /\ Len(cbLog) >= 3

\* C2: every accepted asynchronous command with a callback has the callback
\* invoked exactly once over the life of the manager: never twice, and once
\* by the time the manager is gone.
C2_ExactlyOnce ==
    /\ \A j \in 1..Len(submitted) : CallbackCount(j) <= 1
    /\ Destroyed => \A j \in 1..Len(submitted) : submitted[j] => CallbackCount(j) = 1

\* C3: once the worker has exited at shutdown, every command that was still
\* queued has received callback(false, "cancelled: shutting down").
C3_CancelledAtShutdown ==
    pc[Worker] \in {"exited", "joined"} =>
        \A j \in 1..Len(submitted) :
            (submitted[j] /\ j \notin Executed) =>
                \E i \in DOMAIN cbLog :
                    cbLog[i] = [id |-> j, success |-> FALSE,
                                message |-> "cancelled: shutting down"]

\* C4: when the worker invokes callback(true, ...) for a command, and the
\* driver has not changed since that command's driver call (and no driver
\* query failed while the published registry was built), the published
\* registry is the layout the driver reports.
C4_RegistryCurrentAtSuccess ==
    (pc[Worker] = "w_cb" /\ wOk /\ curTask.cb /\ ~dirty /\ pubClean)
        => migDevices = DriverLayout(migMode)

\* The part of registry reg that a read positioned at cursor has copied.
Copied(reg, o, cursor) ==
    [u \in {x \in DOMAIN reg : DevOfUuid(x) < cursor /\ Selected(o, reg[x])} |-> reg[u]]

\* C5: a registry read that is copying holds metricsMutex, and what it has
\* copied so far is exactly the corresponding part of the one mapping that is
\* published now: no swap has happened under it, whatever refreshes are in
\* progress.
C5_ReaderSeesPublishedMapping ==
    \A t \in Callers :
        pc[t] = "g_iter" =>
            /\ metricsMutex = {t}
            /\ readBuf[t] = Copied(migDevices, op[t], iter[t])

\* A read has copied an entry while another thread's finished refresh pass,
\* holding a different mapping, waits at the swap.
C5_Witness ==
    \E t \in Callers, r \in Threads :
        /\ r # t
        /\ pc[t] = "g_iter" /\ iter[t] > 0 /\ readBuf[t] # EmptyMap
        /\ pc[r] \in RefreshPCs /\ rIdx[r] = Len(devices)
        /\ newDevices[r] # migDevices

\* C6: no two threads are inside a mutating driver call on the same device.
C6_MutationsSerialized ==
    \A a, b \in Threads :
        (a # b /\ InSetMigMode(a) /\ InSetMigMode(b)) => TargetDevice(a) # TargetDevice(b)

\* C7: a thread inside a Driver Interface call holds no internal lock.
C7_NoLockAcrossDriverCall ==
    \A t \in Threads : InDriverCall(t) => t \notin metricsMutex

\* Whether the value a read asks for is already cached.
CachedValueExists(o) ==
    CASE o.kind \in {"getAll", "getDev"} -> TRUE
      [] o.kind = "metrics" -> o.uuid \in DOMAIN latestMetrics
      [] o.kind = "allMetrics" -> latestMetrics # EmptyMap
      [] OTHER -> FALSE

\* C8: a read operation whose value is cached is never inside a Driver
\* Interface call on the calling thread.
C8_ReadsNeverCallDriver ==
    \A t \in Callers :
        (op[t].kind \in {"getAll", "getDev", "metrics", "allMetrics"} /\ CachedValueExists(op[t]))
            => ~InDriverCall(t)

\* C9: at most one refresh-loop thread is alive.
C9_SingleRefreshLoop == Cardinality(LiveLoops) <= 1

\* C10: destruction never ends in std::terminate, and when the destructor has
\* run every refresh-loop thread and the worker have exited and been joined.
C10_ShutdownCompletes ==
    \A t \in Callers :
        op[t].kind = "dtor" =>
            /\ ~terminated
            /\ pc[t] = "destroyed" =>
                  (pc[Worker] = "joined" /\ \A m \in Spawned : pc[m] = "joined")

\* C11: once stopMonitoring has cleared the flag and sent its notification,
\* every loop thread blocked in wait_for has been reached by the notification,
\* so that it wakes because of the flag and not only when the interval elapses.
C11_StopInterruptsSleep ==
    \A m \in Monitors :
        (/\ pc[m] = "m_sleep"
         /\ ~monitoringActive
         /\ \A c \in Callers : pc[c] # "stop_notify")
            => m \in notified

\* C12: once the stop flag is set the worker starts no further command, and
\* from the loop head or the queue wait its next step is to exit.
C12_NoCommandAfterStop ==
    [][~workerActive =>
          /\ execLog' = execLog
          /\ (pc[Worker] \in {"w_test", "w_wait"} /\ pc'[Worker] # pc[Worker])
                => pc'[Worker] = "exited"]_vars

\* The flag is set while the worker is executing a command and another
\* command is still queued.
C12_Witness ==
    /\ ~workerActive
    /\ pc[Worker] \in {"w_setmig", "w_refresh", "w_cb"}
    /\ taskQueue # <<>>

\* A caller is in an enable/disable call whose device index is out of range.
InvalidIndexCall(t) == op[t].kind \in {"enable", "disable"} /\ op[t].dev >= Len(devices)

\* C13: an enable/disable call with an index outside the inventory only
\* returns false: no driver call is issued for it, a supplied callback has been
\* invoked once with success=false, no queued or running command carries such
\* an index, and the call's step changes neither queue, driver nor registry.
C13_InvalidIndexRejected ==
    /\ [](\A t \in Callers :
            InvalidIndexCall(t) =>
                /\ pc[t] = "c_ret"
                /\ op[t].ret = "false"
                /\ op[t].drv = "none"
                /\ op[t].cbs = IF op[t].cb THEN <<FALSE>> ELSE <<>>)
    /\ [](/\ \A i \in DOMAIN taskQueue : taskQueue[i].dev < Len(devices)
          /\ curTask.dev < Len(devices))
    /\ [][\A t \in Callers :
            (~InvalidIndexCall(t) /\ InvalidIndexCall(t)') =>
                /\ taskQueue' = taskQueue
                /\ submitted' = submitted
                /\ migMode' = migMode
                /\ migDevices' = migDevices]_vars

\* Two callers have made calls with an out-of-range index, one synchronous
\* and one asynchronous, each with a callback.
C13_Witness ==
    \E a, b \in Callers :
        /\ InvalidIndexCall(a) /\ op[a].async /\ op[a].cb
        /\ InvalidIndexCall(b) /\ ~op[b].async /\ op[b].cb

\* The return of an enable/disable call with a valid index. Synchronous: the
\* driver call was made, the value returned is true exactly when it succeeded,
\* and true is returned from the point after the call's own refresh has swapped
\* its mapping in. Asynchronous: the call goes from entry to return in one
\* step that appends one command, with no driver call and no callback on the
\* caller's thread, and returns true.
C14_ReturnContract ==
    [][\A t \in Callers :
        /\ (pc[t] # "c_ret" /\ pc'[t] = "c_ret" /\ ~InvalidIndexCall(t)') =>
              IF op'[t].async
              THEN /\ pc[t] = "idle"
                   /\ Len(taskQueue') = Len(taskQueue) + 1
                   /\ SubSeq(taskQueue', 1, Len(taskQueue)) = taskQueue
                   /\ migMode' = migMode
                   /\ op'[t].drv = "none" /\ op'[t].cbs = <<>>
                   /\ op'[t].ret = "true"
              ELSE /\ op'[t].drv # "none"
                   /\ (op'[t].ret = "true") = (op'[t].drv = "ok")
                   /\ op'[t].ret = "true" => pc[t] = "s_ret"
        /\ (pc[t] # "s_ret" /\ pc'[t] = "s_ret") =>
              /\ pc[t] = "s_refresh" /\ rIdx[t] = Len(devices)
              /\ migDevices' = newDevices[t]]_vars

\* C14: the return contract of the synchronous and the asynchronous form, and
\* the asynchronous result is delivered through the callback: once the manager
\* is gone every accepted command with a callback has had it invoked.
C14_SyncAndAsyncReturns ==
    /\ C14_ReturnContract
    /\ [](Destroyed =>
            \A j \in 1..Len(submitted) : submitted[j] => CallbackCount(j) >= 1)

\* C15: the callback of an asynchronous command is invoked with success=true
\* only when the command's nvmlDeviceSetMigMode succeeded; when it failed the
\* callback gets success=false with the driver's message, the worker has not
\* refreshed the registry for that command, and after the callback the worker
\* is back at its loop head with the process alive.
C15_AsyncFailureReported ==
    /\ [](pc[Worker] = "w_refresh" => curTask.drv = "ok")
    /\ [][cbLog' # cbLog =>
            LET r == cbLog'[Len(cbLog')]
            IN /\ cbLog' = Append(cbLog, r)
               /\ r.id = curTask.id
               /\ r.success = (curTask.drv = "ok")
               /\ ~r.success => r.message = "driver error"
               /\ pc'[Worker] = "w_test" /\ ~terminated']_vars
    /\ [][(pc[Worker] = "w_setmig" /\ curTask'.drv = "fail") =>
            /\ pc'[Worker] = "w_cb"
            /\ migDevices' = migDevices]_vars

\* A command whose driver call failed has had its callback, and the worker has
\* gone on to a later command, which succeeded.
C15_Witness ==
    \E i, k \in DOMAIN cbLog :
        i < k /\ ~cbLog[i].success /\ cbLog[k].success

\* The driver indices whose handle query succeeded, in increasing order.
RECURSIVE AcquiredUpTo(_)
AcquiredUpTo(n) ==
    IF n <= 0 THEN <<>>
    ELSE IF init.handleOk[n - 1] THEN Append(AcquiredUpTo(n - 1), n - 1)
    ELSE AcquiredUpTo(n - 1)

\* The constructor has thrown: getInstance() propagates the error and no
\* instance exists.
CtorFailed == \E t \in Callers : pc[t] = "ctor_failed"

\* C16: construction fails when the device-count query fails or when no
\* device handle is obtained, so a manager that runs has at least one handle
\* in its inventory.
C16_NoEmptyInventory == Running => (init.count # -1 /\ devices # <<>>)

\* C17: when the handle query fails for some but not all driver indices,
\* construction does not fail, and from the end of the handle loop on the
\* inventory is exactly the acquired handles in increasing driver-index
\* order.
C17_PartialHandlesTolerated ==
    /\ CtorFailed => (~init.nvmlOk \/ init.count = -1)
    /\ (\E t \in Callers : pc[t] \in {"ctor_refresh", "ctor_start"}) \/ Running
         => devices = AcquiredUpTo(init.count)
    /\ (\E t \in Callers : pc[t] = "ctor_handles") => devices = AcquiredUpTo(init.i)

C17_Witness ==
    /\ Running
    /\ init.count = NumDevices
    /\ ~init.handleOk[0]
    /\ devices = <<NumDevices - 1>>

\* The answers of a driver that answers device d in one fixed way.
Answer(d) == CHOOSE q \in driver[d] : TRUE

\* The registry keys a mapping holds for inventory position p.
EntriesOf(reg, p) == {u \in DOMAIN reg : reg[u].parentDeviceIndex = p}

\* Some driver query refresh makes for the device at position p fails.
DeviceFailure(p) == ~AnswerClean(migMode[devices[p + 1]], Answer(devices[p + 1]))

\* The mode query or the instance enumeration of the device at p fails.
DeviceLevelFailure(p) ==
    LET q == Answer(devices[p + 1]) IN ~q.modeOk \/ ~q.giOk

\* The uuids of the partitions the driver has on the device at position p:
\* its GPU instances that hold a compute instance.
Partitions(p) ==
    LET d == devices[p + 1]
        q == Answer(d)
    IN {InstUuid(d, i) : i \in {k \in DOMAIN q.inst : q.inst[k].ciCount > 0}}

\* Those of them for which the queries up to the uuid succeed.
Identified(p) ==
    LET d == devices[p + 1]
        q == Answer(d)
    IN {InstUuid(d, i) : i \in {k \in DOMAIN q.inst :
            LET a == q.inst[k]
            IN a.infoOk /\ a.ciOk /\ a.ciCount > 0 /\ a.ci0Ok /\ a.uuidOk}}

\* A thread's refreshMIGDevices returns in this step.
RefreshReturns(t) == pc[t] \in RefreshPCs /\ pc'[t] # pc[t]

\* A refresh returns only after visiting every inventory position and
\* swapping its local map in; a device whose mode query or instance
\* enumeration fails has no entry in the published mapping, and every
\* partition whose own queries succeed is published, whatever fails elsewhere.
C18_RefreshNeverAborts ==
    [][\A t \in Threads : RefreshReturns(t) =>
          /\ rIdx[t] = Len(devices)
          /\ migDevices' = newDevices[t]
          /\ \A p \in 0..(Len(devices) - 1) :
                /\ DeviceLevelFailure(p) => EntriesOf(migDevices', p) = {}
                /\ EntriesOf(migDevices', p) = Identified(p)]_vars

\* A device for which any driver query fails during the pass has no entry in
\* the published mapping, and a device without failure has all its partitions
\* in it.
C18_FailedDeviceEmpty ==
    [][\A t \in Threads : RefreshReturns(t) =>
          \A p \in 0..(Len(devices) - 1) :
              IF DeviceFailure(p)
              THEN EntriesOf(migDevices', p) = {}
              ELSE EntriesOf(migDevices', p) = Partitions(p)]_vars

\* C18: a driver failure while enumerating one device never aborts the
\* refresh: that device contributes zero partitions to the new mapping, the
\* partitions of every other device are enumerated and published, and the
\* new mapping is swapped in.
C18_DriverFailureIsolated == C18_RefreshNeverAborts /\ C18_FailedDeviceEmpty

\* C19: in every published registry mapping each descriptor has a non-empty
\* uuid equal to its map key and a parent device index that is a position of
\* the inventory (the one holding the device the partition lives on).
C19_DescriptorWellFormed ==
    \A u \in DOMAIN migDevices :
        /\ ~(u = NoUuid)
        /\ migDevices[u].uuid = u
        /\ migDevices[u].parentDeviceIndex \in 0..(Len(devices) - 1)
        /\ devices[migDevices[u].parentDeviceIndex + 1] = DevOfUuid(u)

C19_Witness ==
    /\ devices = <<NumDevices - 1>>
    /\ InstUuid(NumDevices - 1, 1) \notin DOMAIN migDevices
    /\ InstUuid(NumDevices - 1, 2) \in DOMAIN migDevices
    /\ migDevices[InstUuid(NumDevices - 1, 2)].parentDeviceIndex = 0

\* C20: every descriptor findMIGDeviceByUUID returns has
\* currentComputeInstances <= maxComputeInstances, whatever the driver's
\* profile-info and compute-instance queries answered during the refresh
\* that published it.
C20_CurrentWithinMax ==
    \A t \in Callers : pc[t] = "f_ret" =>
        \A u \in DOMAIN readBuf[t] :
            readBuf[t][u].currentComputeInstances <= readBuf[t][u].maxComputeInstances

\* The last two calls that returned are a successful synchronous
\* enableMIGMode(d) and, right after it, a successful disableMIGMode(d).
EnabledThenDisabled(d) ==
    LET n == Len(hist.log)
    IN /\ n >= 2
       /\ hist.log[n - 1] = [kind |-> "enable", dev |-> d, ret |-> "true"]
       /\ hist.log[n] = [kind |-> "disable", dev |-> d, ret |-> "true"]

\* getMIGDevices(d) has finished its copy and returns readBuf.
ListingReturns(t) == pc[t] = "g_iter" /\ iter[t] = NumDevices /\ op[t].kind = "getDev"

\* What the next call of the client finds after enable then disable.
LawAfterDisable(t) ==
    /\ (ListingReturns(t) /\ EnabledThenDisabled(op[t].dev)) => readBuf[t] = EmptyMap
    /\ (pc[t] = "c_ret" /\ op[t].kind = "isEnabled" /\ EnabledThenDisabled(op[t].dev))
          => op[t].ret = "false"

\* The relation when no refresh loop has been started.
C21_WithoutRefreshLoop ==
    (\A m \in Monitors : pc[m] = "none") => \A t \in Callers : LawAfterDisable(t)

\* C21: for every valid device index, a synchronous enableMIGMode followed
\* immediately by a synchronous disableMIGMode (both succeeding) leaves
\* getMIGDevices(index) empty and isMIGModeEnabled(index) false.
C21_EnableThenDisable == \A t \in Callers : LawAfterDisable(t)

\* The registry in place was published by the refresh of a listing that has
\* returned (one caller: nothing was published since).
PublishedByRefresh == hist.on /\ Len(hist.log) >= 1

\* A profile query of some inventoried device fails.
ProfileQueryFails ==
    \E d \in Inventoried : \E k \in DOMAIN Answer(d).inst : ~Answer(d).inst[k].profOk

\* The relation on a driver whose profile queries succeed.
C22_WithProfileInfo ==
    [][\A t \in Threads :
          (RefreshReturns(t) /\ PublishedByRefresh /\ ~ProfileQueryFails)
              => migDevices' = migDevices]_vars

\* C22: refreshMIGDevices is idempotent: a second refresh with no change of
\* driver state in between publishes a mapping equal to the first, with the
\* same uuids and the same field values.
C22_RefreshIdempotent ==
    [][\A t \in Threads :
          (RefreshReturns(t) /\ PublishedByRefresh) => migDevices' = migDevices]_vars

\* getAllMIGDevices() has finished its copy and returns readBuf.
ListAllReturns(t) == pc[t] = "g_iter" /\ iter[t] = NumDevices /\ op[t].kind = "getAll"

\* The inventory positions whose device has partitioning enabled.
EnabledPositions == {p \in 0..(Len(devices) - 1) : migMode[devices[p + 1]]}

\* The descriptors of the partitions a healthy driver reports on the enabled
\* devices, keyed by uuid, each with the position of its device.
ReportedPartitions ==
    LET keys == UNION {Partitions(p) : p \in EnabledPositions}
        pos(u) == CHOOSE p \in EnabledPositions : u \in Partitions(p)
        inst(u) == CHOOSE i \in 1..MaxInstances : InstUuid(DevOfUuid(u), i) = u
    IN [u \in keys |->
          [uuid |-> u, parentDeviceIndex |-> pos(u), instanceId |-> inst(u),
           currentComputeInstances |-> Answer(DevOfUuid(u)).inst[inst(u)].ciCount,
           maxComputeInstances |-> Answer(DevOfUuid(u)).inst[inst(u)].profMax]]

MetricsCallStarts(t, kind) == op[t].kind = "none" /\ op'[t].kind = kind

\* A snapshot map holds, for each uuid of a registry, a snapshot collected
\* from that registry's descriptor of the uuid.
CollectedFrom(snap, reg) ==
    /\ DOMAIN snap = DOMAIN reg
    /\ \A u \in DOMAIN snap :
          snap[u].uuid = u /\ snap[u].sensorsFrom = reg[u].parentDeviceIndex

\* C24: getMIGDeviceMetrics(uuid) returns the cached snapshot when the cache
\* holds one for the uuid; otherwise, when the uuid is in the current
\* registry, a snapshot collected on demand from that registry descriptor;
\* otherwise nothing.
C24_MetricsLookup ==
    [][\A t \in Callers :
         /\ MetricsCallStarts(t, "metrics") =>
               LET u == op'[t].uuid
               IN IF u \in DOMAIN latestMetrics
                  THEN /\ pc'[t] = "mt_ret" /\ op'[t].ret = "cached"
                       /\ readBuf'[t] = (u :> latestMetrics[u])
                  ELSE IF u \in DOMAIN migDevices
                  THEN pc'[t] = "gm_collect" /\ metricsMutex' = {t}
                  ELSE /\ pc'[t] = "mt_ret" /\ op'[t].ret = "notfound"
                       /\ readBuf'[t] = EmptyMap
         /\ (pc[t] = "gm_collect" /\ pc'[t] # "gm_collect") =>
               /\ pc'[t] = "mt_ret" /\ op'[t].ret = "collected"
               /\ op[t].uuid \in DOMAIN migDevices
               /\ CollectedFrom(readBuf'[t], op[t].uuid :> migDevices[op[t].uuid])]_vars

\* One caller holds a cached snapshot while another holds one collected on
\* demand.
C24_Witness ==
    \E a, b \in Callers :
        /\ pc[a] = "mt_ret" /\ op[a].kind = "metrics" /\ op[a].ret = "cached"
        /\ pc[b] = "mt_ret" /\ op[b].kind = "metrics" /\ op[b].ret = "collected"
        /\ readBuf[a] # EmptyMap /\ readBuf[b] # EmptyMap

\* C25: getMIGDeviceMetrics on a uuid that is in neither the cache nor the
\* registry returns nothing without a driver call and without changing the
\* cache or the registry; a collection is only ever in progress for a uuid
\* that was registered.
C25_UnknownUuidNotFound ==
    /\ [][\A t \in Callers :
             (/\ MetricsCallStarts(t, "metrics")
              /\ op'[t].uuid \notin DOMAIN latestMetrics
              /\ op'[t].uuid \notin DOMAIN migDevices)
             => /\ pc'[t] = "mt_ret" /\ op'[t].ret = "notfound"
                /\ readBuf'[t] = EmptyMap
                /\ latestMetrics' = latestMetrics
                /\ migDevices' = migDevices]_vars
    /\ [](\A t \in Callers : pc[t] = "gm_collect" => op[t].uuid \in DOMAIN migDevices)

\* The lookup of an unknown uuid has returned nothing while the cache and the
\* registry hold entries.
C25_Witness ==
    \E t \in Callers :
        /\ pc[t] = "mt_ret" /\ op[t].kind = "metrics" /\ op[t].ret = "notfound"
        /\ latestMetrics # EmptyMap /\ migDevices # EmptyMap

\* C26: getAllMIGMetrics() returns the whole cache when it is not empty; when
\* it is empty it returns one freshly collected snapshot for every uuid of
\* the published registry.
C26_AllMetrics ==
    [][\A t \in Callers :
         /\ MetricsCallStarts(t, "allMetrics") =>
               IF latestMetrics # EmptyMap
               THEN /\ pc'[t] = "mt_ret" /\ op'[t].ret = "cached"
                    /\ readBuf'[t] = latestMetrics
               ELSE IF migDevices # EmptyMap
               THEN pc'[t] = "am_collect" /\ metricsMutex' = {t}
               ELSE pc'[t] = "mt_ret" /\ readBuf'[t] = EmptyMap
         /\ (pc[t] = "am_collect" /\ pc'[t] # "am_collect") =>
               /\ pc'[t] = "mt_ret" /\ op'[t].ret = "collected"
               /\ latestMetrics = EmptyMap
               /\ CollectedFrom(readBuf'[t], migDevices)]_vars

\* One caller holds the cache while another holds a map collected for a
\* registry of every device.
C26_Witness ==
    \E a, b \in Callers :
        /\ pc[a] = "mt_ret" /\ op[a].kind = "allMetrics" /\ op[a].ret = "cached"
        /\ pc[b] = "mt_ret" /\ op[b].kind = "allMetrics" /\ op[b].ret = "collected"
        /\ DOMAIN readBuf[b] = UUIDs

\* The answers of a driver that answers the telemetry queries in one fixed way.
SensorAnswer == CHOOSE a \in sensors : TRUE

\* A metrics call returns what it collected.
CollectedReturn(t) == pc[t] = "mt_ret" /\ op[t].ret = "collected"

\* A collection always returns: one snapshot per descriptor, and every field
\* whose query succeeded holds the reading.
C27_CollectionCompletes ==
    \A t \in Callers : CollectedReturn(t) =>
        /\ op[t].kind = "metrics" => DOMAIN readBuf[t] = {op[t].uuid}
        /\ \A u \in DOMAIN readBuf[t] :
              /\ SensorAnswer.utilOk => readBuf[t][u].gpuUtilization = 1
              /\ SensorAnswer.memOk => readBuf[t][u].memoryUsed = 1
              /\ SensorAnswer.powerOk => readBuf[t][u].powerUsage = 1
              /\ SensorAnswer.tempOk => readBuf[t][u].temperature = 1

\* Every field whose query failed is zero.
C27_FailedFieldsZero ==
    \A t \in Callers : CollectedReturn(t) =>
        \A u \in DOMAIN readBuf[t] :
            /\ ~SensorAnswer.utilOk => readBuf[t][u].gpuUtilization = 0
            /\ ~SensorAnswer.memOk => readBuf[t][u].memoryUsed = 0
            /\ ~SensorAnswer.powerOk => readBuf[t][u].powerUsage = 0
            /\ ~SensorAnswer.tempOk => readBuf[t][u].temperature = 0

\* C27: collectDeviceMetrics always returns a snapshot, and in it every field
\* whose driver query failed holds zero, for every combination of failing
\* queries.
C27_SentinelOnFailure == C27_CollectionCompletes /\ C27_FailedFieldsZero

\* The refresh loops that have waited between passes.
Waited == {m \in Monitors : timer.waited[m] # 0}

\* A loop started with the argument omitted, or with the default passed, waits
\* the default interval.
C28_DefaultInterval ==
    \A m \in Waited :
        timer.requested[m] = DefaultIntervalMs => timer.waited[m] = DefaultIntervalMs

\* C28: the refresh loop waits between passes for the interval that was passed
\* to the startMonitoring call that started it, whatever its value.
C28_WaitEqualsInterval ==
    \A m \in Waited : timer.waited[m] = timer.requested[m]

\* The callers that are inside the constructor.
Constructing == {t \in Callers : pc[t] \in {"ctor_guard", "ctor_count", "ctor_handles",
                                              "ctor_refresh", "ctor_start", "ctor_failed"}}

\* At most one MIGManager is ever constructed, by one caller at a time and
\* only while `instance` is null, and every caller that getInstance has
\* returned to holds the object in `instance`.
OneInstance ==
    /\ singleton.made <= 1
    /\ singleton.instance = singleton.made
    /\ Cardinality(Constructing) <= 1
    /\ Constructing # {} => singleton.instance = 0 /\ singleton.instanceMutex = Constructing
    /\ \A t \in Callers :
          /\ pc[t] = "idle" => singleton.got[t] # 0
          /\ singleton.got[t] # 0 => singleton.got[t] = singleton.instance

\* A construction that fails leaves `instance` null and instanceMutex free.
FailureRetainsNothing ==
    \A t \in Callers :
        pc[t] = "ctor_failed" /\ pc'[t] # "ctor_failed" =>
            /\ singleton'.instance = 0
            /\ singleton'.made = singleton.made
            /\ singleton'.instanceMutex = {}
            /\ singleton'.got[t] = 0

\* C29: any number of concurrent first calls of getInstance construct at most
\* one MIGManager and all callers receive that instance; when the constructor
\* fails no instance is retained.
C29_SingleInstance == []OneInstance /\ [][FailureRetainsNothing]_vars

\* Every caller holds the instance although an earlier construction failed.
C29_Witness ==
    /\ \A t \in Callers : pc[t] = "idle" /\ singleton.got[t] = 1
    /\ opsLeft = MaxCalls - NumCallers - 1

\* No call of the NVMLManager is in progress.
NvmlAtRest == nvml.at \in {"idle", "destroyed"}

\* The driver inits the manager holds: one while it is initialized, none
\* otherwise and none once it is destroyed; never more shutdowns than inits.
InitsBalanced ==
    /\ nvml.shutdowns <= nvml.inits
    /\ NvmlAtRest =>
          nvml.inits - nvml.shutdowns = (IF nvml.initialized THEN 1 ELSE 0)
    /\ nvml.at = "destroyed" => nvml.inits = nvml.shutdowns

\* A failed initialize() leaves the driver released and the manager
\* uninitialized.
FailedInitializeReleases ==
    nvml.at = "idle" /\ nvml.call = "initialize" /\ nvml.ret = "false" =>
        ~nvml.initialized /\ nvml.inits = nvml.shutdowns

\* shutdown() on an uninitialized manager issues no driver call.
ShutdownUninitialized ==
    nvml.at = "idle" /\ ~nvml.initialized /\ nvml'.call \in {"shutdown", "destructor"}
        /\ nvml' # nvml
        => nvml'.driverCalls = nvml.driverCalls /\ ~nvml'.initialized

\* The shutdown of an uninitialized manager is silent in every sequence.
C30_ShutdownNoDriverCall == [][ShutdownUninitialized]_vars

\* The balance holds in the sequences that never call initialize() on an
\* initialized manager.
C30_WithoutReinitialize ==
    ~nvml.reinit => InitsBalanced /\ FailedInitializeReleases

\* C30: in any sequence of initialize(), shutdown() and destructor calls every
\* successful driver init is matched by exactly one driver shutdown, a failed
\* initialize leaves the driver released and the manager uninitialized, and
\* shutdown on an uninitialized manager issues no driver call.
C30_InitTeardownBalanced ==
    [](InitsBalanced /\ FailedInitializeReleases) /\ [][ShutdownUninitialized]_vars

\* The inventory is the one the construction acquired.
InventoryAsAcquired == devices = AcquiredUpTo(NumDevices)

\* The values getDeviceCount has returned.
CountsReturned ==
    {hist.log[k].ret : k \in {j \in DOMAIN hist.log : hist.log[j].kind = "count"}}

\* C31: after construction no facade operation and no background thread adds,
\* removes or reorders device handles, and getDeviceCount always returns the
\* number of handles the construction acquired.
C31_InventoryImmutable ==
    /\ [](InventoryAsAcquired /\ CountsReturned \subseteq {Len(AcquiredUpTo(NumDevices))})
    /\ [][devices' = devices]_vars

\* getDeviceCount returns after a command has succeeded, while the registry
\* holds a different number of partitions than the inventory holds handles.
C31_Witness ==
    /\ Len(hist.log) = 2
    /\ hist.log[1].kind \in {"enable", "disable"} /\ hist.log[1].ret = "true"
    /\ hist.log[2].kind = "count"
    /\ Cardinality(DOMAIN migDevices) # Len(devices)

\* Thread t swaps its map in.
SwapBy(t) ==
    pc[t] \in RefreshPCs /\ rIdx[t] = Len(devices) /\ pc'[t] = AfterRefresh(pc[t])

\* Once a mapping built after the last mutation is published, no swap
\* installs a different mapping that was built from reads before it.
NoBackwardSwap ==
    \A t \in Threads :
        SwapBy(t) /\ age.current /\ age.stale[t] => migDevices' = migDevices

\* C32: when refresh passes overlap, once a mapping built from the driver
\* state after a mutation is published, no later swap installs a mapping built
\* from driver state read before that mutation.
C32_RegistryNeverMovesBack == [][NoBackwardSwap]_vars

\* A pass of loop thread m reaches the cache rebuild only from the swap that
\* ends its own refreshMIGDevices.
RefreshBeforeRebuild(m) ==
    /\ (pc'[m] = "m_lock" /\ pc[m] # "m_lock") =>
          pc[m] = "m_refresh" /\ rIdx[m] = Len(devices) /\ migDevices' = newDevices[m]
    /\ (pc'[m] = "m_collect" /\ pc[m] # "m_collect") => pc[m] = "m_lock"
    /\ (pc'[m] = "m_publish" /\ pc[m] # "m_publish") => pc[m] \in {"m_lock", "m_collect"}

\* The rebuild holds one snapshot per entry of the registry it read, and the
\* registry does not change while it is read.
RebuildCoversRegistry(m) ==
    /\ pc[m] = "m_collect" => migDevices' = migDevices
    /\ (pc'[m] = "m_publish" /\ pc[m] # "m_publish") =>
          /\ DOMAIN mMetrics'[m] = DOMAIN migDevices
          /\ \A u \in DOMAIN migDevices : mMetrics'[m][u].uuid = u

\* The pass publishes what it rebuilt.
PublishesRebuild(m) ==
    (pc[m] = "m_publish" /\ pc'[m] # "m_publish") => latestMetrics' = mMetrics[m]

\* C33: in each refresh-loop pass the registry refresh is published before
\* the cache rebuild begins, and the cache the pass publishes has exactly the
\* uuids of the registry mapping that was read for the rebuild.
C33_RefreshThenRebuild ==
    [][\A m \in Monitors :
          RefreshBeforeRebuild(m) /\ RebuildCoversRegistry(m) /\ PublishesRebuild(m)]_vars

\* A pass has published a cache with a snapshot, and the registry has changed
\* since the pass read it.
C33_Witness ==
    \E m \in Monitors :
        /\ pc[m] \in {"m_wait", "m_block", "m_sleep"}
        /\ latestMetrics # EmptyMap
        /\ DOMAIN latestMetrics # DOMAIN migDevices

\* ~NVMLGuard has run: the destructor has destroyed the members, nvmlGuard last.
TornDown == \E t \in Callers : pc[t] = "destroyed"

\* The worker and every refresh loop that was started have been joined.
ThreadsJoined ==
    /\ pc[Worker] = "joined"
    /\ \A m \in Monitors : pc[m] \in {"none", "joined"}

\* The worker thread starts from a constructor that has initialised the
\* driver and has returned from its refreshMIGDevices, which is reached only
\* through the swap.
WorkerStartsLast ==
    /\ (pc[Worker] = "none" /\ pc'[Worker] # "none") =>
          /\ init.nvmlOk /\ init.count # -1
          /\ \E t \in Callers : pc[t] = "ctor_start"
    /\ \A t \in Callers :
          (pc'[t] = "ctor_start" /\ pc[t] # "ctor_start") =>
              pc[t] = "ctor_refresh" /\ migDevices' = newDevices[t]

\* C34: the driver is torn down only after the refresh loop and the worker
\* have been joined, nothing runs after the teardown, and the worker is
\* started only after driver init and the constructor's refresh.
C34_NoDriverCallAfterTeardown ==
    /\ [](TornDown => ThreadsJoined)
    /\ [][~TornDown /\ WorkerStartsLast]_vars

\* The same when at most one refresh-loop thread was ever created.
C34_WithOneLoop ==
    /\ [](Cardinality(Spawned) <= 1 /\ TornDown => ThreadsJoined)
    /\ [][(Cardinality(Spawned) <= 1 => ~TornDown) /\ WorkerStartsLast]_vars

\* A refresh loop is inside refreshMIGDevices or the metrics collection after
\* the driver has been torn down.
DriverCallAfterTeardown ==
    TornDown /\ \E m \in Monitors : pc[m] \in {"m_refresh", "m_collect"}

\* A synchronous command that has reached its return.
SyncDone(t) ==
    pc[t] = "c_ret" /\ op[t].kind \in {"enable", "disable"} /\ ~op[t].async

\* The worker has invoked no callback twice, a synchronous command has invoked
\* its callback at most once, and has not returned false after a driver call
\* that succeeded.
CallbackOnce ==
    /\ \A j \in 1..Len(submitted) : CallbackCount(j) <= 1
    /\ \A t \in Callers :
          SyncDone(t) => /\ Len(op[t].cbs) <= 1
                         /\ op[t].drv = "ok" => op[t].ret = "true"

\* C35: a completion callback is invoked at most once per command even when it
\* raises during its success invocation: neither the worker nor the
\* synchronous enable/disable invokes it again with success=false, and a
\* synchronous call whose driver call succeeded does not return false.
C35_CallbackAtMostOnce == CallbackOnce

\* A synchronous command whose driver call and refresh succeeded has invoked
\* its callback with true and then with false, and returns false.
C35_SecondInvocation ==
    \E t \in Callers :
        SyncDone(t) /\ op[t].drv = "ok" /\ op[t].cbs = <<TRUE, FALSE>> /\ op[t].ret = "false"

\* The worker has invoked the callback of one command with true and with false.
C35_WorkerSecondInvocation ==
    \E i, k \in DOMAIN cbLog :
        i < k /\ cbLog[i].id = cbLog[k].id /\ cbLog[i].success /\ ~cbLog[k].success

\* C36: the metrics cache never holds a snapshot for a partition that is
\* absent from the published registry: the cache's uuid set is a subset of the
\* registry's uuid set in every reachable state.
C36_CacheWithinRegistry == DOMAIN latestMetrics \subseteq DOMAIN migDevices

\* A synchronous disableMIGMode has succeeded and published its refresh, and
\* the cache still holds the snapshot of the partition it removed.
C36_CachedAfterRemoval ==
    \E t \in Callers :
        /\ pc[t] = "c_ret" /\ op[t].kind = "disable" /\ op[t].ret = "true"
        /\ UuidOf(Handle(op[t].dev)) \in DOMAIN latestMetrics \ DOMAIN migDevices

\* The step in which an on-demand collection of caller t returns.
OnDemandCollected(t) == pc[t] \in {"gm_collect", "am_collect"} /\ pc'[t] = "mt_ret"

\* The step in which a refresh loop stores its pass in the cache.
LoopPublishes == \E m \in Monitors : pc[m] = "m_publish" /\ pc'[m] # "m_publish"

\* An on-demand collection hands the caller what it collected from the
\* registry and leaves the cache and the registry as they were.
CollectionReadOnly ==
    \A t \in Callers :
        OnDemandCollected(t) =>
            /\ latestMetrics' = latestMetrics /\ migDevices' = migDevices
            /\ op'[t].ret = "collected"
            /\ DOMAIN readBuf'[t] = (IF op[t].kind = "metrics"
                                      THEN {op[t].uuid} \cap DOMAIN migDevices
                                      ELSE DOMAIN migDevices)

\* C37: on-demand collection is read-only with respect to shared state:
\* getMIGDeviceMetrics on a cache miss and getAllMIGMetrics on an empty cache
\* return the collected snapshots and leave the metrics cache and the registry
\* unchanged; only the refresh loop ever writes the metrics cache.
C37_OnDemandReadOnly ==
    [][CollectionReadOnly /\ (latestMetrics' # latestMetrics => LoopPublishes)]_vars

\* An on-demand collection has returned snapshots of registered partitions,
\* none of which the cache holds.
C37_Witness ==
    \E t \in Callers :
        /\ pc[t] = "mt_ret" /\ op[t].ret = "collected"
        /\ readBuf[t] # EmptyMap
        /\ DOMAIN readBuf[t] \cap DOMAIN latestMetrics = {}

\* The step of thread t takes metricsMutex: it leaves t as the holder, or it
\* is a block that locks and unlocks within the step (the swap, the loop's
\* store to the cache, a getter that returns from the cache).
TakesMetricsMutex(t) ==
    \/ metricsMutex' = {t} /\ metricsMutex # {t}
    \/ SwapBy(t)
    \/ pc[t] = "m_publish" /\ pc'[t] # "m_publish"
    \/ t \in Callers /\ pc[t] = "idle" /\ pc'[t] = "mt_ret"

\* The step of thread t takes taskMutex.
TakesTaskMutex(t) == taskMutex'.holder = {t} /\ taskMutex.holder # {t}

\* The step of thread t invokes a completion callback.
InvokesCallback(t) ==
    IF t = Worker THEN cbLog' # cbLog
    ELSE t \in Callers /\ op'[t].cbs # <<>> /\ op'[t].cbs # op[t].cbs

\* No thread holds both mutexes, takes one while it holds the other, or
\* invokes a callback while it holds either.
LockDiscipline ==
    \A t \in Threads :
        /\ t \in taskMutex.holder => ~TakesMetricsMutex(t)
        /\ t \in metricsMutex => ~TakesTaskMutex(t)
        /\ InvokesCallback(t) => t \notin taskMutex.holder \cup metricsMutex
                                  /\ ~TakesMetricsMutex(t) /\ ~TakesTaskMutex(t)

\* The threads that thread t waits for: the holder of a mutex it is about to
\* lock, the thread it joins, and for the worker blocked on taskCV the callers
\* that can push a task or stop it. A loop in wait_for wakes by itself and
\* waits only for the mutex.
WaitsFor(t) ==
    IF t \in Callers /\ pc[t] = "stop_joining"
    THEN {m \in thr[t] : pc[m] \notin {"exited", "joined"}}
    ELSE IF t \in Callers /\ pc[t] = "dtor_join"
    THEN {w \in {Worker} : pc[w] # "exited"}
    ELSE IF pc[t] \in {"enq_lock", "dtor_worker"}
    THEN taskMutex.holder \ {t}
    ELSE IF t = Worker /\ pc[t] = "w_wait"
    THEN IF workerActive /\ taskQueue = <<>> THEN Callers ELSE taskMutex.holder \ {t}
    ELSE IF \/ pc[t] \in {"g_lock", "m_lock", "m_publish", "m_wait", "m_sleep"}
            \/ pc[t] \in RefreshPCs /\ rIdx[t] = Len(devices)
    THEN metricsMutex \ {t}
    ELSE {}

\* Some threads are all blocked, each waiting for threads among them.
Deadlocked ==
    \E S \in SUBSET Threads :
        S # {} /\ \A t \in S : WaitsFor(t) # {} /\ WaitsFor(t) \subseteq S

\* C38: no lock-order deadlock exists: no thread ever holds the task-queue
\* mutex and the registry/metrics mutex at the same time, callbacks are invoked
\* with neither lock held, and no reachable state has caller threads, the
\* worker and the refresh loop all blocked waiting for one another.
C38_NoLockOrderDeadlock ==
    /\ [](taskMutex.holder \cap metricsMutex = {} /\ ~Deadlocked)
    /\ [][LockDiscipline]_vars

\* A caller waits for taskMutex, which the worker holds, while another thread
\* holds metricsMutex.
C38_Witness ==
    /\ taskMutex.holder = {Worker}
    /\ \E t \in Callers : pc[t] = "enq_lock"
    /\ metricsMutex # {}

\* The worker has invoked a callback after a caller has waited in a join.
C38_WitnessCallback ==
    /\ cbLog # <<>>
    /\ \E t \in Callers : pc[t] = "stop_joining" /\ WaitsFor(t) # {}

\* The uuid of the partition instance cannot be resolved: it has no compute
\* instance, or the info query of its first compute instance or the uuid
\* query fails.
Unresolved(a) == a.ciCount = 0 \/ ~a.ci0Ok \/ ~a.uuidOk

\* The mapping holds a descriptor, under whatever key, for GPU instance i of
\* the device at inventory position p.
Describes(reg, p, i) ==
    \E u \in DOMAIN reg : reg[u].parentDeviceIndex = p /\ reg[u].instanceId = i

\* C39: a partition whose uuid cannot be resolved during refresh is never
\* published: a partition instance with zero compute instances, or whose first
\* compute instance info query or uuid query fails, is omitted from the new
\* registry mapping while the other partitions of the same device are still
\* published.
C39_UnresolvedOmitted ==
    [][\A t \in Threads : RefreshReturns(t) =>
          \A p \in 0..(Len(devices) - 1) :
              LET d == devices[p + 1]
                  q == Answer(d)
              IN \A i \in DOMAIN q.inst :
                    IF Unresolved(q.inst[i])
                    THEN ~Describes(migDevices', p, i)
                    ELSE (isMIGModeEnabled(migMode, d, q.modeOk) /\ q.giOk
                          /\ q.inst[i].infoOk /\ q.inst[i].ciOk)
                         => /\ InstUuid(d, i) \in DOMAIN migDevices'
                            /\ migDevices'[InstUuid(d, i)].instanceId = i]_vars

\* A published mapping holds the second partition of a device whose first
\* partition has a failing uuid query, and nothing for the first.
C39_Witness ==
    \E p \in 0..(Len(devices) - 1) :
        LET d == devices[p + 1]
            q == Answer(d)
        IN /\ Len(q.inst) = 2
           /\ ~q.inst[1].uuidOk /\ ~Unresolved(q.inst[2])
           /\ Describes(migDevices, p, 2) /\ ~Describes(migDevices, p, 1)
           /\ \E t \in Callers : pc[t] = "g_lock"

\* The threads of the NVMLManager that run the given loop and exist: created
\* and not yet joined.
Existing(n, role) ==
    {i \in DOMAIN n.threads : n.threads[i].role = role /\ n.threads[i].st # "joined"}

\* At most one thread per loop, each held by its member, and never a call of
\* std::terminate.
OneThreadEach ==
    /\ Existing(nvml, "monitor") \subseteq {nvml.monitorThread}
    /\ Existing(nvml, "event") \subseteq {nvml.eventThread}
    /\ nvml.at # "terminated"

\* Once stopMonitoring() has returned (by itself or within shutdown) every
\* thread has returned and has been joined.
StopHasJoined ==
    (nvml.at \in {"idle", "destroyed"} /\ nvml.call \in {"stop", "shutdown", "destructor"})
        => /\ \A i \in DOMAIN nvml.threads : nvml.threads[i].st = "joined"
           /\ nvml.monitorThread = 0 /\ nvml.eventThread = 0

\* A startMonitoring() on a running or uninitialized manager and a
\* stopMonitoring() on a manager that is not running change nothing.
NoOpCalls ==
    /\ (nvml'.calls # nvml.calls /\ nvml'.call = "start" /\ (nvml.running \/ ~nvml.initialized))
          => nvml' = [nvml EXCEPT !.calls = @ + 1, !.call = "start", !.ret = "none"]
    /\ (nvml'.calls # nvml.calls /\ nvml'.call = "stop" /\ ~nvml.running)
          => nvml' = [nvml EXCEPT !.calls = @ + 1, !.call = "stop", !.ret = "none"]

\* C40: for NVMLManager, across any sequence of startMonitoring and
\* stopMonitoring calls at most one monitor thread and at most one event
\* thread exist at a time: startMonitoring is a no-op when already running or
\* when not initialized, stopMonitoring is a no-op when not running, and
\* stopMonitoring returns only after both threads have exited and been joined.
C40_OneMonitorOneEventThread ==
    /\ [](OneThreadEach /\ StopHasJoined)
    /\ [][NoOpCalls]_vars

\* The second startMonitoring() after a stopMonitoring() has created the
\* second pair of threads; the first pair has been joined.
C40_Witness ==
    /\ nvml.running /\ nvml.call = "start" /\ nvml.at = "idle"
    /\ Len(nvml.threads) = 4
    /\ nvml.monitorThread = 3 /\ nvml.eventThread = 4

====
